---- MODULE Spec2Model ----
(***************************************************************************)
(* Model of the traceroute core of aws_network_tools: the trace engine     *)
(* (traceroute/engine.py), the staleness checker (traceroute/staleness.py),*)
(* topology discovery (traceroute/topology.py) and the file cache          *)
(* (core/cache.py).                                                        *)
(*                                                                         *)
(* Each component has its own variable and its own specification:          *)
(*   lpm    SpecRoute     AWSTraceroute._find_best_route on bounded inputs  *)
(*   stale  SpecStale     StalenessChecker.is_stale on bounded inputs       *)
(*   disc   SpecDiscover  TopologyDiscovery.discover, unit by unit          *)
(*   store  SpecCache     Cache get/set/clear, get_cached, marker saving    *)
(*   tr     SpecTrace     AWSTraceroute.trace, hop by hop                   *)
(* A specification leaves the other components' variables at their idle    *)
(* value.                                                                  *)
(***************************************************************************)
EXTENDS Integers, Sequences, FiniteSets, TLC

VARIABLES lpm, stale, disc, store, tr

vars == <<lpm, stale, disc, store, tr>>

(***************************************************************************)
(* Bounds of the model.                                                    *)
(***************************************************************************)
\* Width of an address in bits (IPv4 has 32; the model keeps the arithmetic).
AddrBits == 2
\* Longest route list handed to _find_best_route.
MaxRoutes == 2
\* Largest resource count / policy version a marker records.
MaxCount == 2

RECURSIVE Pow2(_)
Pow2(n) == IF n = 0 THEN 1 ELSE 2 * Pow2(n - 1)

Addrs == 0 .. (Pow2(AddrBits) - 1)
PrefixLens == 0 .. AddrBits

\* Python's None for a string-valued field.
None == "None"

(***************************************************************************)
(* Routes.  A route is the dict discovery builds: destination, target,     *)
(* core_network_arn, state.  A destination is the CIDR text, kept as what  *)
(* ip_network can make of it: "cidr" (base/len), "empty" (the "" default   *)
(* of a route without DestinationCidrBlock) or "invalid" (ValueError).     *)
(***************************************************************************)
Cidr(b, l) == [kind |-> "cidr", base |-> b, len |-> l]
EmptyDest == [kind |-> "empty", base |-> 0, len |-> 0]
InvalidDest == [kind |-> "invalid", base |-> 0, len |-> 0]

Route(d, t, arn, s) ==
    [destination |-> d, target |-> t, core_network_arn |-> arn, state |-> s]

\* ip_network(dest, strict=False): host bits are masked off.
NetworkAddress(dest) ==
    LET h == Pow2(AddrBits - dest.len) IN (dest.base \div h) * h

\* x & netmask, for a netmask of prefix length l.
AndMask(x, l) == x - (x % Pow2(AddrBits - l))

\* `dst in network`: dst & netmask == network_address.
InNetwork(dst, dest) == AndMask(dst, dest.len) = NetworkAddress(dest)

\* `network.prefixlen > best_prefix_len`, written with >= : the last of
\* several equally long matches would win.
BetterLastWins(prefixlen, best_prefix_len) == prefixlen >= best_prefix_len

\* `network.prefixlen > best_prefix_len`.
Better(prefixlen, best_prefix_len) == prefixlen > best_prefix_len

\* The loop of _find_best_route from entry i on; best is the index of
\* best_match (0 is None).
RECURSIVE BestFrom(_, _, _, _, _)
BestFrom(routes, dst, i, best, best_prefix_len) ==
    IF i > Len(routes) THEN best
    ELSE LET route == routes[i]
             dest == route.destination
         IN  IF dest.kind = "empty" \/ route.state = "blackhole"
             THEN BestFrom(routes, dst, i + 1, best, best_prefix_len)
             ELSE IF dest.kind = "invalid"
             THEN BestFrom(routes, dst, i + 1, best, best_prefix_len)
             ELSE IF InNetwork(dst, dest) /\ Better(dest.len, best_prefix_len)
             THEN BestFrom(routes, dst, i + 1, i, dest.len)
             ELSE BestFrom(routes, dst, i + 1, best, best_prefix_len)

\* _find_best_route, as the index of the entry returned (0: None).
FindBestRouteIdx(routes, dst) == BestFrom(routes, dst, 1, 0, -1)

(***************************************************************************)
(* The file cache (core/cache.py).  A cache file is absent, or holds the   *)
(* record Cache.set wrote.  Time is counted in ticks.                      *)
(***************************************************************************)
\* DEFAULT_TTL, in ticks.
DefaultTtl == 1
\* The clock stops here.
MaxTime == 2

\* A cache file that does not exist.
NoFile == [present |-> FALSE]

NoData == [present |-> FALSE]
Data(d) == [present |-> TRUE, d |-> d]

CacheFile(data, now, ttl_seconds, account_id) ==
    [present |-> TRUE, data |-> data, cached_at |-> now,
     ttl_seconds |-> ttl_seconds, account_id |-> account_id]

\* A set that drops the account id.
CacheSetUnscoped(data, account_id, now) == CacheFile(data, now, DefaultTtl, None)

\* Cache.set
CacheSet(data, account_id, now) == CacheFile(data, now, DefaultTtl, account_id)

\* A clear that leaves the file where it is.
CacheClearKeeps(file) == file

\* Cache.clear: `if self.cache_file.exists(): self.cache_file.unlink()`
CacheClear(file) == IF file.present THEN NoFile ELSE file

\* An entry that expires as soon as its age reaches the ttl.
ExpiredAtTtl(file, now) == now - file.cached_at >= file.ttl_seconds

\* `(now - cached_at).total_seconds() > ttl`
Expired(file, now) == now - file.cached_at > file.ttl_seconds

\* A cache that does not look at the account.
AccountNeverMismatch(file, current_account) == FALSE

\* The account test of Cache.get.
AccountMismatch(file, current_account) ==
    /\ current_account # None
    /\ file.account_id # None
    /\ file.account_id # current_account

\* Cache.get: the data returned (NoData is None) and the file afterwards.
CacheGet(file, ignore_expiry, current_account, now) ==
    IF ~file.present THEN [data |-> NoData, file |-> file]
    ELSE IF AccountMismatch(file, current_account)
    THEN [data |-> NoData, file |-> CacheClear(file)]
    ELSE IF ~ignore_expiry /\ Expired(file, now)
    THEN [data |-> NoData, file |-> file]
    ELSE [data |-> Data(file.data), file |-> file]

(***************************************************************************)
(* Change markers (staleness.py).  A dict keyed by region is a function    *)
(* whose domain is the set of keys; NoVersion is the None of               *)
(* cwan_policy_version and NoCount the None of dict.get on a missing key.  *)
(***************************************************************************)
NoVersion == -1
NoCount == -1

\* The regions the marker calls are made for, in call order.
MarkerRegions == <<"eu-west-1">>

RegionSet(regions) == {regions[i] : i \in 1 .. Len(regions)}

ChangeMarkers(pv, att, tgw, vpc) ==
    [cwan_policy_version |-> pv, cwan_attachment_count |-> att,
     tgw_count |-> tgw, vpc_count |-> vpc]

\* ChangeMarkers.to_dict
ToDict(m) ==
    [cwan_policy_version |-> m.cwan_policy_version,
     cwan_attachment_count |-> m.cwan_attachment_count,
     tgw_count |-> m.tgw_count,
     vpc_count |-> m.vpc_count]

\* ChangeMarkers.from_dict
FromDict(d) ==
    ChangeMarkers(d.cwan_policy_version, d.cwan_attachment_count,
                  d.tgw_count, d.vpc_count)

\* dict.get(region)
Get(d, region) == IF region \in DOMAIN d THEN d[region] ELSE NoCount

\* StalenessChecker.save_markers: the markers file written at time now.
SaveMarkers(markers, now) == CacheSet(ToDict(markers), None, now)

\* No saved markers.
NoMarkers == [present |-> FALSE]
Saved(m) == [present |-> TRUE, m |-> m]

\* StalenessChecker.get_saved_markers: Cache.get(ignore_expiry=True) of the
\* markers namespace, then from_dict.
GetSavedMarkers(file, now) ==
    LET got == CacheGet(file, TRUE, None, now)
    IN  IF got.data.present THEN Saved(FromDict(got.data.d)) ELSE NoMarkers

Verdict(is_stale, kind, region, saved_value, current_value) ==
    [stale |-> is_stale, kind |-> kind, region |-> region,
     saved |-> saved_value, current |-> current_value]

\* The policy version test of is_stale.
PolicyChanged(current, saved) ==
    /\ current.cwan_policy_version # NoVersion
    /\ saved.cwan_policy_version # NoVersion
    /\ current.cwan_policy_version # saved.cwan_policy_version

\* The attachment test without its guard on the saved count.
AttachmentsChangedUnguarded(current, saved) ==
    /\ current.cwan_attachment_count > 0
    /\ current.cwan_attachment_count # saved.cwan_attachment_count

\* The attachment count test of is_stale.
AttachmentsChanged(current, saved) ==
    /\ current.cwan_attachment_count > 0
    /\ saved.cwan_attachment_count > 0
    /\ current.cwan_attachment_count # saved.cwan_attachment_count

\* saved.tgw_count.get(region), reading the wrong dict.
SavedTgwCountFromVpc(saved, region) == Get(saved.vpc_count, region)

\* saved.tgw_count.get(region)
SavedTgwCount(saved, region) == Get(saved.tgw_count, region)

\* saved.vpc_count.get(region)
SavedVpcCount(saved, region) == Get(saved.vpc_count, region)

\* `saved_count is not None and saved_count != count`
CountChanged(saved_count, count) == saved_count # NoCount /\ saved_count # count

\* The keys of a dict in insertion order: the order of the regions the
\* marker calls were made for.
Keys(d, regions) == SelectSeq(regions, LAMBDA r : r \in DOMAIN d)

\* The first region of keys whose tgw count changed (0: none).
RECURSIVE FirstTgwChange(_, _, _, _)
FirstTgwChange(current, saved, keys, i) ==
    IF i > Len(keys) THEN 0
    ELSE IF CountChanged(SavedTgwCount(saved, keys[i]), current.tgw_count[keys[i]])
    THEN i
    ELSE FirstTgwChange(current, saved, keys, i + 1)

\* The first region of keys whose vpc count changed (0: none).
RECURSIVE FirstVpcChange(_, _, _, _)
FirstVpcChange(current, saved, keys, i) ==
    IF i > Len(keys) THEN 0
    ELSE IF CountChanged(SavedVpcCount(saved, keys[i]), current.vpc_count[keys[i]])
    THEN i
    ELSE FirstVpcChange(current, saved, keys, i + 1)

\* StalenessChecker.is_stale, given what get_saved_markers and
\* get_current_markers(regions) return.
IsStale(saved_markers, current, regions) ==
    IF ~saved_markers.present
    THEN Verdict(TRUE, "no_markers", "", NoCount, NoCount)
    ELSE LET saved == saved_markers.m
             tkeys == Keys(current.tgw_count, regions)
             vkeys == Keys(current.vpc_count, regions)
             t == FirstTgwChange(current, saved, tkeys, 1)
             v == FirstVpcChange(current, saved, vkeys, 1)
         IN  IF PolicyChanged(current, saved)
             THEN Verdict(TRUE, "policy", "", saved.cwan_policy_version,
                          current.cwan_policy_version)
             ELSE IF AttachmentsChanged(current, saved)
             THEN Verdict(TRUE, "attachments", "", saved.cwan_attachment_count,
                          current.cwan_attachment_count)
             ELSE IF t # 0
             THEN Verdict(TRUE, "tgw", tkeys[t], SavedTgwCount(saved, tkeys[t]),
                          current.tgw_count[tkeys[t]])
             ELSE IF v # 0
             THEN Verdict(TRUE, "vpc", vkeys[v], SavedVpcCount(saved, vkeys[v]),
                          current.vpc_count[vkeys[v]])
             ELSE Verdict(FALSE, "none", "", NoCount, NoCount)

(***************************************************************************)
(* get_current_markers (staleness.py).  The cloud answers each cheap call  *)
(* or fails it: nm is the networkmanager call that fails ("none", "list",  *)
(* "policy", "attachments"), ec2[r] the call that fails in region r        *)
(* ("none", "tgw", "vpc").                                                 *)
(***************************************************************************)
\* regions[:5]
MaxMarkerRegions == 5

Take(seq, n) == SubSeq(seq, 1, IF Len(seq) < n THEN Len(seq) ELSE n)

NmFails == {"none", "list", "policy", "attachments"}
Ec2Fails == {"none", "tgw", "vpc"}
FailChoices(regions) == [nm : NmFails, ec2 : [RegionSet(regions) -> Ec2Fails]]

\* The failures the discover and get_cached actions draw from: the policy
\* call, or the transit-router call of the first region asked.
SomeFails(regions) ==
    {f \in FailChoices(regions) :
        /\ f.nm \in {"none", "policy"}
        /\ \A i \in 1 .. Len(regions) :
               f.ec2[regions[i]] \in (IF i = 1 THEN {"none", "tgw"} ELSE {"none"})}

\* A fetch that counts a region even when its call failed.
TgwCountedAll(regions, fails) == RegionSet(Take(regions, MaxMarkerRegions))

\* regions[:5], dropping the regions whose first call fails.
TgwCounted(regions, fails) ==
    {r \in RegionSet(Take(regions, MaxMarkerRegions)) : fails.ec2[r] # "tgw"}

VpcCounted(regions, fails) ==
    {r \in RegionSet(Take(regions, MaxMarkerRegions)) : fails.ec2[r] = "none"}

\* StalenessChecker.get_current_markers against a cloud holding
\* [core (is there a core network), pv, att, tgw, vpc].
GetCurrentMarkers(cloud, regions, fails) ==
    ChangeMarkers(
        IF cloud.core /\ fails.nm \in {"none", "attachments"} THEN cloud.pv ELSE NoVersion,
        IF cloud.core /\ fails.nm = "none" THEN cloud.att ELSE 0,
        [r \in TgwCounted(regions, fails) |-> cloud.tgw[r]],
        [r \in VpcCounted(regions, fails) |-> cloud.vpc[r]])

(***************************************************************************)
(* Topology discovery (topology.py).  The cloud discovery reads is fixed:  *)
(* two regions, one transit router, three virtual networks, five           *)
(* interfaces, address 3 in use in both regions.                           *)
(***************************************************************************)
\* describe_regions
CloudRegions == <<"us-east-1", "eu-west-1">>

Account == "111111111111"

\* A write that leaves the dict with the written key alone.
PutAlone(d, k, v) == [x \in {k} |-> v]

\* A dict d with d[k] = v.
Put(d, k, v) == [x \in (DOMAIN d) \cup {k} |-> IF x = k THEN v ELSE d[x]]

\* The dict with no key.
EmptyDict == [x \in {} |-> 0]

\* A route as describe_route_tables returns it; "" is a key that is absent.
RawRoute(dest, gw, nat, tgw, eni, arn, state) ==
    [DestinationCidrBlock |-> dest, GatewayId |-> gw, NatGatewayId |-> nat,
     TransitGatewayId |-> tgw, NetworkInterfaceId |-> eni,
     CoreNetworkArn |-> arn, State |-> state]

\* The target of a parsed route: the first id present, else "local".
RouteTarget(r) ==
    IF r.GatewayId # "" THEN r.GatewayId
    ELSE IF r.NatGatewayId # "" THEN r.NatGatewayId
    ELSE IF r.TransitGatewayId # "" THEN r.TransitGatewayId
    ELSE IF r.NetworkInterfaceId # "" THEN r.NetworkInterfaceId
    ELSE "local"

\* The route dict _discover_vpcs appends for a raw route.
ParseRoute(r) ==
    Route(r.DestinationCidrBlock, RouteTarget(r), r.CoreNetworkArn,
          IF r.State = "" THEN "active" ELSE r.State)

ParseRoutes(raw) == [i \in 1 .. Len(raw) |-> ParseRoute(raw[i])]

RouteTable(id, name, routes, vpc_id) ==
    [id |-> id, name |-> name, routes |-> routes, vpc_id |-> vpc_id]

CoreArn == "arn:core-network/cn-1"

\* describe_transit_gateways per region.
CloudTgws(region) == IF region = "eu-west-1" THEN {"tgw-1"} ELSE {}

\* describe_vpcs per region.
CloudVpcs(region) ==
    IF region = "eu-west-1" THEN {"vpc-a", "vpc-c"}
    ELSE IF region = "us-east-1" THEN {"vpc-b"} ELSE {}

\* describe_route_tables per region: each table with its associations
\* (subnet ids, and whether it is the main table of its vpc).
CloudRouteTables(region) ==
    IF region = "eu-west-1"
    THEN {[rt |-> RouteTable("rtb-a", "a", ParseRoutes(<<
                 RawRoute(Cidr(0, AddrBits - 1), "local", "", "", "", "", "active"),
                 RawRoute(Cidr(0, 0), "", "", "", "", CoreArn, "active")>>), "vpc-a"),
           subnets |-> {"subnet-a"}, main |-> FALSE],
          [rt |-> RouteTable("rtb-a-main", "", ParseRoutes(<<
                 RawRoute(Cidr(0, AddrBits - 1), "local", "", "", "", "", "active"),
                 RawRoute(Cidr(0, 0), "", "", "tgw-1", "", "", "")>>), "vpc-a"),
           subnets |-> {}, main |-> TRUE]}
    ELSE IF region = "us-east-1"
    THEN {[rt |-> RouteTable("rtb-b-main", "", ParseRoutes(<<
                 RawRoute(Cidr(2, AddrBits - 1), "local", "", "", "", "", "active")>>), "vpc-b"),
           subnets |-> {}, main |-> TRUE]}
    ELSE {}

EniRecord(eni_id, vpc_id, subnet_id, region) ==
    [eni_id |-> eni_id, vpc_id |-> vpc_id, subnet_id |-> subnet_id, region |-> region]

\* describe_network_interfaces per region: private address -> interface.
CloudEnis(region) ==
    IF region = "eu-west-1"
    THEN (0 :> EniRecord("eni-e", "vpc-c", "subnet-c", region)) @@
         (1 :> EniRecord("eni-a", "vpc-a", "subnet-a", region)) @@
         (2 :> EniRecord("eni-b", "vpc-a", "subnet-a2", region)) @@
         (3 :> EniRecord("eni-d", "vpc-c", "subnet-c", region))
    ELSE IF region = "us-east-1"
    THEN (3 :> EniRecord("eni-c", "vpc-b", "subnet-b", region))
    ELSE [ip \in {} |-> EniRecord("", "", "", region)]

\* An attachment record; ResourceArn is kept as the resource id it ends
\* with, name is the value of its Name tag ("" without one).
Attachment(id, vpc_id, edge, segment, nfg, name) ==
    [AttachmentId |-> id, ResourceArn |-> [kind |-> "vpc", id |-> vpc_id],
     EdgeLocation |-> edge, SegmentName |-> segment,
     NetworkFunctionGroupName |-> nfg, Name |-> name]

\* list_attachments, in page order.
CloudAttachments ==
    <<Attachment("att-a", "vpc-a", "eu-west-1", "prod", None, ""),
      Attachment("att-b", "vpc-b", "us-east-1", "shared", None, "")>>

\* A send-via segment action: star is when-sent-to.segments == "*", segments
\* the listed segments otherwise, nfgs the via.network-function-groups list.
SendVia(segment, star, segments, nfgs) ==
    [action |-> "send-via", segment |-> segment,
     star |-> star, segments |-> segments, nfgs |-> nfgs]

\* The policy document: its segment-actions.
Policy(actions) == [present |-> TRUE, segment_actions |-> actions]
EmptyPolicy == [present |-> FALSE, segment_actions |-> <<>>]

CloudPolicy == Policy(<<>>)

\* What the marker calls count in this cloud.
DiscoverCloud ==
    [core |-> TRUE, pv |-> 1, att |-> Len(CloudAttachments),
     tgw |-> [r \in RegionSet(CloudRegions) |-> Cardinality(CloudTgws(r))],
     vpc |-> [r \in RegionSet(CloudRegions) |-> Cardinality(CloudVpcs(r))]]

\* NetworkTopology(account_id=..., regions=...)
NetworkTopology(account_id, regions) ==
    [account_id |-> account_id, regions |-> regions,
     global_networks |-> {}, core_networks |-> {},
     cwan_attachments |-> <<>>, cwan_policy |-> EmptyPolicy,
     tgws |-> EmptyDict, tgw_route_tables |-> EmptyDict,
     vpcs |-> EmptyDict, route_tables |-> EmptyDict, eni_index |-> EmptyDict]

\* The units discover hands to the worker pool.
Unit(kind, region) == [kind |-> kind, region |-> region]
CwanUnit == Unit("cwan", "us-east-1")
GatherUnits(regions) ==
    {CwanUnit} \cup {Unit(k, r) : k \in {"tgw", "vpc"}, r \in RegionSet(regions)}
IndexUnits(regions) == {Unit("eni", r) : r \in RegionSet(regions)}
Units(regions) == GatherUnits(regions) \cup IndexUnits(regions)

\* The keys of topology.route_tables: a subnet id, or "main:<vpc id>".
SubnetKey(subnet_id) == [main |-> FALSE, id |-> subnet_id]
MainKey(vpc_id) == [main |-> TRUE, id |-> vpc_id]

\* The (key, table) pairs _discover_vpcs writes for a region: one per subnet
\* association and one per main association.
RouteTableEntries(region) ==
    UNION {{[key |-> SubnetKey(sn), rt |-> x.rt] : sn \in x.subnets} : x \in CloudRouteTables(region)}
    \cup {[key |-> MainKey(x.rt.vpc_id), rt |-> x.rt] : x \in {y \in CloudRouteTables(region) : y.main}}

\* topology.route_tables after the tables of a region are indexed.
IndexRouteTables(route_tables, region) ==
    LET entries == RouteTableEntries(region)
        keys == {e.key : e \in entries}
    IN  [k \in (DOMAIN route_tables) \cup keys |->
            IF k \in keys THEN (CHOOSE e \in entries : e.key = k).rt ELSE route_tables[k]]

\* topology.eni_index after the interfaces of a region are written.
IndexEnis(eni_index, region) ==
    [ip \in (DOMAIN eni_index) \cup DOMAIN CloudEnis(region) |->
        IF ip \in DOMAIN CloudEnis(region) THEN CloudEnis(region)[ip] ELSE eni_index[ip]]

\* The writes a unit makes once its first call has succeeded.
FirstWrites(t, u) ==
    CASE u.kind = "cwan" ->
            [t EXCEPT !.global_networks = {"gn-1"}, !.core_networks = {"cn-1"}]
      [] u.kind = "tgw" ->
            IF CloudTgws(u.region) = {} THEN t
            ELSE [t EXCEPT !.tgws = Put(@, u.region, CloudTgws(u.region))]
      [] u.kind = "vpc" ->
            IF CloudVpcs(u.region) = {} THEN t
            ELSE [t EXCEPT !.vpcs = Put(@, u.region, CloudVpcs(u.region))]
      [] OTHER -> [t EXCEPT !.eni_index = IndexEnis(@, u.region)]

\* Whether a unit makes further calls after its first writes.
HasSecondCall(u) ==
    CASE u.kind = "cwan" -> TRUE
      [] u.kind = "tgw" -> CloudTgws(u.region) # {}
      [] u.kind = "vpc" -> CloudVpcs(u.region) # {}
      [] OTHER -> FALSE

\* The writes a unit makes once its remaining calls have succeeded.
SecondWrites(t, u) ==
    CASE u.kind = "cwan" ->
            [t EXCEPT !.cwan_policy = CloudPolicy, !.cwan_attachments = CloudAttachments]
      [] u.kind = "tgw" ->
            [t EXCEPT !.tgw_route_tables =
                [g \in (DOMAIN @) \cup CloudTgws(u.region) |->
                    IF g \in CloudTgws(u.region) THEN {"tgw-rtb-1"} ELSE @[g]]]
      [] u.kind = "vpc" ->
            [t EXCEPT !.route_tables = IndexRouteTables(@, u.region)]
      [] OTHER -> t

\* The state of discover before it is called.
NoTopology == NetworkTopology(None, <<>>)

DiscIdle ==
    [pc |-> "idle", unit |-> [u \in Units(CloudRegions) |-> "idle"],
     topology |-> NoTopology]

\* What get_cached last returned, with what held when it was called;
\* cleared says that clear_cache was called and no discover has persisted a
\* snapshot since.
NoReturn ==
    [called |-> FALSE, check_staleness |-> FALSE, topology |-> NoData,
     fresh |-> FALSE, would_be_stale |-> FALSE,
     account |-> None, other_account |-> FALSE, file_left |-> FALSE,
     cleared |-> FALSE]

StoreIdle ==
    [topo |-> NoFile, markers |-> NoFile, now |-> 0, account |-> Account,
     cloud |-> DiscoverCloud, ret |-> NoReturn]

\* discover up to asyncio.gather: the account id and the regions are
\* fetched, the topology is created and the cloud-wan, transit-router and
\* virtual-network units are handed to the pool.
DiscoverStart ==
    /\ disc.pc = "idle"
    /\ disc' = [disc EXCEPT
                  !.pc = "gather",
                  !.topology = NetworkTopology(store.account, CloudRegions),
                  !.unit = [u \in Units(CloudRegions) |->
                               IF u \in GatherUnits(CloudRegions) THEN "running" ELSE "idle"]]
    /\ UNCHANGED <<lpm, stale, store, tr>>

\* A worker makes the first call of a unit: it fails, or its result is
\* written to the topology.
UnitFirstCall(u) ==
    /\ disc.pc \in {"gather", "index"}
    /\ disc.unit[u] = "running"
    /\ \E ok \in BOOLEAN :
        disc' = IF ~ok THEN [disc EXCEPT !.unit[u] = "failed"]
                ELSE [disc EXCEPT
                        !.topology = FirstWrites(@, u),
                        !.unit[u] = IF HasSecondCall(u) THEN "mid" ELSE "done"]
    /\ UNCHANGED <<lpm, stale, store, tr>>

\* A worker makes the remaining calls of a unit.
UnitSecondCall(u) ==
    /\ disc.pc \in {"gather", "index"}
    /\ disc.unit[u] = "mid"
    /\ \E ok \in BOOLEAN :
        disc' = IF ~ok THEN [disc EXCEPT !.unit[u] = "failed"]
                ELSE [disc EXCEPT !.topology = SecondWrites(@, u), !.unit[u] = "done"]
    /\ UNCHANGED <<lpm, stale, store, tr>>

\* A gather that returns as soon as one of its units has completed.
AnyDone(units) == \E u \in units : disc.unit[u] = "done"

\* asyncio.gather returns when every unit handed to it has completed.
AllDone(units) == \A u \in units : disc.unit[u] = "done"

\* The units the awaited gather waits for.
Awaited == IF disc.pc = "gather" THEN GatherUnits(CloudRegions) ELSE IndexUnits(CloudRegions)

\* asyncio.gather re-raises the exception of a unit: neither gather is
\* given return_exceptions and no fetch catches, so discover raises.
GatherRaises ==
    /\ disc.pc \in {"gather", "index"}
    /\ \E u \in Awaited : disc.unit[u] = "failed"
    /\ disc' = [disc EXCEPT !.pc = "raised"]
    /\ UNCHANGED <<lpm, stale, store, tr>>

\* The first gather returns: _build_eni_index hands one unit per region to
\* the pool.
GatherReturns ==
    /\ disc.pc = "gather"
    /\ AllDone(GatherUnits(CloudRegions))
    /\ disc' = [disc EXCEPT
                  !.pc = "index",
                  !.unit = [u \in Units(CloudRegions) |->
                               IF u \in IndexUnits(CloudRegions) THEN "running" ELSE @[u]]]
    /\ UNCHANGED <<lpm, stale, store, tr>>

\* _build_eni_index returns: self._cache.set(asdict(topology), account_id).
CacheTopology ==
    /\ disc.pc = "index"
    /\ AllDone(IndexUnits(disc.topology.regions))
    /\ store' = [store EXCEPT
                   !.topo = CacheSet(disc.topology, disc.topology.account_id, store.now),
                   !.ret.cleared = FALSE]
    /\ disc' = [disc EXCEPT !.pc = "markers"]
    /\ UNCHANGED <<lpm, stale, tr>>

\* get_current_markers(regions[:5]), save_markers, return topology, the
\* marker calls failing as one of choices says.
SaveMarkersOf(choices) ==
    /\ disc.pc = "markers"
    /\ \E fails \in choices :
        store' = [store EXCEPT
                    !.markers = SaveMarkers(
                        GetCurrentMarkers(store.cloud,
                                          Take(disc.topology.regions, MaxMarkerRegions), fails),
                        store.now)]
    /\ disc' = [disc EXCEPT !.pc = "returned"]
    /\ UNCHANGED <<lpm, stale, tr>>

SaveFreshMarkers == SaveMarkersOf(SomeFails(disc.topology.regions))

\* Every fetch of a discover run succeeding, unit after unit.
RECURSIVE FetchAll(_, _)
FetchAll(t, units) ==
    IF units = <<>> THEN t
    ELSE FetchAll(SecondWrites(FirstWrites(t, Head(units)), Head(units)), Tail(units))

UnitOrder(regions) ==
    <<CwanUnit>> \o [i \in 1 .. Len(regions) |-> Unit("tgw", regions[i])]
                 \o [i \in 1 .. Len(regions) |-> Unit("vpc", regions[i])]
                 \o [i \in 1 .. Len(regions) |-> Unit("eni", regions[i])]

\* The snapshot a discover run of an account builds when no fetch fails.
Discovered(account_id) ==
    FetchAll(NetworkTopology(account_id, CloudRegions), UnitOrder(CloudRegions))

\* discover up to the end of _build_eni_index, no fetch failing.
Fetched(d) ==
    [d EXCEPT !.pc = "index",
              !.topology = Discovered(store.account),
              !.unit = [u \in Units(CloudRegions) |-> "done"]]

DiscoverFetched ==
    /\ disc.pc \in {"idle", "returned"}
    /\ disc' = Fetched(disc)
    /\ UNCHANGED <<lpm, stale, store, tr>>

\* The regions get_cached has is_stale check: list(saved.tgw_count.keys())[:5].
CheckRegions(saved) == Take(Keys(saved.m.tgw_count, CloudRegions), MaxMarkerRegions)

\* The staleness part of get_cached when saved_markers is None: the check is
\* skipped and the cached topology is returned.
StaleWithoutMarkers == FALSE

\* TopologyDiscovery.get_cached, the markers fetch answering as fails says:
\* the topology returned (NoData is None) and the topology file afterwards.
GetCachedResult(check_staleness, fails) ==
    LET got == CacheGet(store.topo, FALSE, store.account, store.now)
        saved == GetSavedMarkers(store.markers, store.now)
        regions == IF saved.present THEN CheckRegions(saved) ELSE <<>>
        verdict == IsStale(saved, GetCurrentMarkers(store.cloud, regions, fails), regions)
        judged == IF saved.present THEN verdict.stale ELSE StaleWithoutMarkers
    IN  [topology |-> IF ~got.data.present THEN NoData
                      ELSE IF check_staleness /\ judged THEN NoData
                      ELSE got.data,
         file |-> got.file,
         would_be_stale |-> verdict.stale]

\* Whether the topology file holds a snapshot of the current account that has
\* not expired.
FreshForAccount ==
    /\ store.topo.present
    /\ store.topo.account_id = store.account
    /\ ~Expired(store.topo, store.now)

\* The files after a get_cached call that went as r says, with the record
\* of the call: what it returned, the account it resolved, whether the
\* topology file was one stored under another account, and whether a
\* topology file is left after the call.
AfterGetCached(check_staleness, r) ==
    [store EXCEPT
        !.topo = r.file,
        !.ret = [called |-> TRUE, check_staleness |-> check_staleness,
                 topology |-> r.topology,
                 fresh |-> FreshForAccount,
                 would_be_stale |-> r.would_be_stale,
                 account |-> store.account,
                 other_account |-> store.topo.present
                                   /\ store.topo.account_id # store.account,
                 file_left |-> r.file.present,
                 cleared |-> store.ret.cleared]]

GetCached(check_staleness) ==
    /\ \E fails \in SomeFails(CloudRegions) :
        store' = AfterGetCached(check_staleness, GetCachedResult(check_staleness, fails))
    /\ UNCHANGED <<lpm, stale, disc, tr>>

\* TopologyDiscovery.clear_cache
ClearCache ==
    /\ store' = [store EXCEPT !.topo = CacheClear(@),
                              !.ret = [NoReturn EXCEPT !.cleared = TRUE]]
    /\ UNCHANGED <<lpm, stale, disc, tr>>

\* The clock advances.
Tick ==
    /\ store.now < MaxTime
    /\ store' = [store EXCEPT !.now = @ + 1]
    /\ UNCHANGED <<lpm, stale, disc, tr>>

OtherAccount == "222222222222"

\* The credentials in use change to another account.
SwitchAccount ==
    /\ store' = [store EXCEPT !.account = IF @ = Account THEN OtherAccount ELSE Account]
    /\ UNCHANGED <<lpm, stale, disc, tr>>

\* The cloud changes: the core network gets another policy version.
CloudDrift ==
    /\ \E v \in 1 .. MaxCount :
        /\ v # store.cloud.pv
        /\ store' = [store EXCEPT !.cloud.pv = v]
    /\ UNCHANGED <<lpm, stale, disc, tr>>


(***************************************************************************)
(* AWSTraceroute (engine.py): the tracer, its loaded topology, one trace.  *)
(***************************************************************************)
\* Traces run one after another on the same tracer.
MaxTraces == 2

\* No address (the ip of an interface that was not found).
NoIp == -1

\* ENIInfo(eni_id, ip, vpc_id, subnet_id, region)
ENIInfo(eni_id, ip, vpc_id, subnet_id, region) ==
    [eni_id |-> eni_id, ip |-> ip, vpc_id |-> vpc_id,
     subnet_id |-> subnet_id, region |-> region]

\* The None an address lookup returns.
NoEni == ENIInfo(None, NoIp, None, None, None)

\* A hop name: the f-string's fixed text (tag) and what it interpolates.
Label(tag, ip, text, region) ==
    [tag |-> tag, ip |-> ip, text |-> text, region |-> region]
PlainLabel(text) == Label("", NoIp, text, "")

\* A hop's detail dict; "" is a key that is absent.
Detail(vpc_id, subnet_id, segment, attachment_id) ==
    [vpc_id |-> vpc_id, subnet_id |-> subnet_id, segment |-> segment,
     attachment_id |-> attachment_id]
NoDetail == Detail("", "", "", "")

\* Hop(seq, type, id, name, region, detail)
Hop(seq, type, id, name, region, detail) ==
    [seq |-> seq, type |-> type, id |-> id, name |-> name,
     region |-> region, detail |-> detail]

\* blocked_at = None
NoHop == Hop(0, "none", "", PlainLabel(""), "", NoDetail)

\* A blocked_reason: the message's fixed text and what it interpolates.
Reason(text, ip, id) == [text |-> text, ip |-> ip, id |-> id]
NoReason == Reason("", NoIp, "")

\* TraceResult(src_ip=..., dst_ip=..., reachable=False)
TraceResult(src_ip, dst_ip) ==
    [src_ip |-> src_ip, dst_ip |-> dst_ip, reachable |-> FALSE,
     hops |-> <<>>, blocked_at |-> NoHop, blocked_reason |-> NoReason]

InSeq(x, s) == \E i \in 1 .. Len(s) : s[i] = x

\* _find_eni_api: the order the regions are searched in.
PriorityRegions == <<"eu-west-1", "eu-west-2", "us-east-1", "us-west-2">>
\* A search that takes the regions in snapshot order.
OrderedAsSnapshot(regions) == regions

Ordered(regions) ==
    SelectSeq(PriorityRegions, LAMBDA r : InSeq(r, regions))
    \o SelectSeq(regions, LAMBDA r : ~InSeq(r, PriorityRegions))

\* _find_eni_in_region: what one live lookup can return.  The interface the
\* region holds for the address, or None: the interface is not there at this
\* moment, or the call failed and the exception was swallowed.
FindEniInRegion(ip, region) ==
    {NoEni} \cup
    IF ip \in DOMAIN CloudEnis(region)
    THEN LET e == CloudEnis(region)[ip]
         IN {ENIInfo(e.eni_id, ip, e.vpc_id, e.subnet_id, region)}
    ELSE {}

\* The eni_index record _find_eni_api writes for a found interface.
IndexRecord(eni) == EniRecord(eni.eni_id, eni.vpc_id, eni.subnet_id, eni.region)

\* The index arm of _find_eni_cached.
FindEniIndexed(topology, ip) ==
    IF ip \in DOMAIN topology.eni_index
    THEN LET e == topology.eni_index[ip]
         IN ENIInfo(e.eni_id, ip, e.vpc_id, e.subnet_id, e.region)
    ELSE NoEni

\* route_tables.get(...) = None
NoTable == RouteTable(None, "", <<>>, None)

\* _get_route_table_cached
GetRouteTableCached(topology, subnet_id, vpc_id) ==
    IF SubnetKey(subnet_id) \in DOMAIN topology.route_tables
    THEN topology.route_tables[SubnetKey(subnet_id)]
    ELSE IF MainKey(vpc_id) \in DOMAIN topology.route_tables
    THEN topology.route_tables[MainKey(vpc_id)]
    ELSE NoTable

\* fetch() of _get_subnet_route_table when the network has no main table.
UnknownTable == RouteTable("unknown", "", <<>>, None)

MinOf(S) == CHOOSE x \in S : \A y \in S : x <= y

\* The attachments of a network in a region, by position.
AttachedAt(atts, vpc_id, region) ==
    {i \in 1 .. Len(atts) :
        atts[i].ResourceArn.id = vpc_id /\ atts[i].EdgeLocation = region}

\* _get_segment_for_vpc
GetSegmentForVpc(topology, vpc_id, region) ==
    LET m == AttachedAt(topology.cwan_attachments, vpc_id, region)
    IN IF m = {} THEN None ELSE topology.cwan_attachments[MinOf(m)].SegmentName

\* The send-via actions that apply to the pair of segments, by position.
SendViaAt(actions, src_segment, dst_segment) ==
    {i \in 1 .. Len(actions) :
        /\ actions[i].action = "send-via"
        /\ actions[i].segment = src_segment
        /\ (actions[i].star \/ dst_segment \in actions[i].segments)}

\* _get_send_via_nfg
GetSendViaNfg(topology, src_segment, dst_segment) ==
    LET acts == topology.cwan_policy.segment_actions
        m == SendViaAt(acts, src_segment, dst_segment)
    IN IF m = {} THEN None
       ELSE LET nfgs == acts[MinOf(m)].nfgs
            IN IF nfgs = <<>> THEN None ELSE nfgs[1]

\* The firewall attachments of an inspection group in a region at position
\* k or later.
FirewallsFrom(atts, nfg, region, k) ==
    {i \in k .. Len(atts) :
        atts[i].NetworkFunctionGroupName = nfg /\ atts[i].EdgeLocation = region}

\* target.startswith("tgw-")
TgwTargets == {"tgw-1"}
\* A test that takes every target for a transit gateway.
StartsWithAnything(target) == TRUE

StartsWithTgw(target) == target \in TgwTargets

\* The topology a tracer holds.  Its regions, in discovery order.
TraceRegions == <<"ap-south-1", "us-east-1", "eu-west-1">>

LowerHalf == Cidr(0, AddrBits - 1)
UpperHalf == Cidr(Pow2(AddrBits - 1), AddrBits - 1)
DefaultRoute == Cidr(0, 0)

\* The routes the source's table is drawn from: local blocks, a default
\* route to the core network (parsed with target "local"), to a transit
\* gateway and to an internet gateway, and a blackholed host route.
TraceRouteList ==
    <<Route(LowerHalf, "local", "", "active"),
      Route(UpperHalf, "local", "", "active"),
      Route(DefaultRoute, "local", CoreArn, "active"),
      Route(DefaultRoute, "tgw-1", "", "active"),
      Route(DefaultRoute, "igw-1", "", "active"),
      Route(Cidr(3, AddrBits), "tgw-1", "", "blackhole")>>

\* Every list of at most MaxRoutes of these routes, in the order above.
TraceRouteLists ==
    {SelectSeq(TraceRouteList, LAMBDA r : r \in S) :
        S \in {T \in SUBSET {TraceRouteList[i] : i \in 1 .. Len(TraceRouteList)} :
                  Cardinality(T) <= MaxRoutes}}

\* The main table of vpc-a.
MainRoutes ==
    <<Route(LowerHalf, "local", "", "active"),
      Route(DefaultRoute, "tgw-1", "", "active")>>

\* route_tables of the snapshot: tables for subnet-a and for vpc-a's main
\* association, or none at all (every table is then fetched live).
TraceRouteTables(cached, routes) ==
    IF cached
    THEN Put(Put(EmptyDict, SubnetKey("subnet-a"),
                 RouteTable("rtb-a", "rt-a", routes, "vpc-a")),
             MainKey("vpc-a"), RouteTable("rtb-a-main", "", MainRoutes, "vpc-a"))
    ELSE EmptyDict

\* What fetch() of _get_subnet_route_table can return: the parsed table of
\* the subnet or of the main association, or the placeholder.
LiveRouteTables(routes, vpc_id) ==
    {RouteTable("rtb-live", "", routes, vpc_id), UnknownTable}

\* cwan_attachments and cwan_policy of the snapshot.
AttA == Attachment("att-a", "vpc-a", "eu-west-1", "prod", None, "")
AttB == Attachment("att-b", "vpc-b", "us-east-1", "shared", None, "")
AttC == Attachment("att-c", "vpc-c", "eu-west-1", "shared", None, "")
AttFw1 == Attachment("att-fw1", "vpc-fw1", "eu-west-1", None, "inspect", "fw-one")
AttFw2 == Attachment("att-fw2", "vpc-fw2", "eu-west-1", None, "inspect", "")

Cwan(atts, policy) == [atts |-> atts, policy |-> policy]
CwanChoices ==
    {Cwan(<<>>, EmptyPolicy),
     Cwan(<<AttA, AttB, AttC>>, Policy(<<>>)),
     Cwan(<<AttA, AttB, AttC, AttFw1>>,
          Policy(<<SendVia("prod", FALSE, {"shared"}, <<"inspect">>)>>)),
     Cwan(<<AttFw1, AttA, AttB, AttC, AttFw2>>,
          Policy(<<SendVia("prod", TRUE, {}, <<"inspect">>)>>)),
     Cwan(<<AttA, AttFw1>>, Policy(<<SendVia("prod", TRUE, {}, <<>>)>>))}

\* eni_index of the snapshot: what discovery indexed (address 3 in
\* us-east-1), with or without addresses 1 and 3.
FullIndex ==
    [ip \in 0 .. 3 |->
        IF ip = 3 THEN CloudEnis("us-east-1")[ip] ELSE CloudEnis("eu-west-1")[ip]]
IndexChoices ==
    {[ip \in S |-> FullIndex[ip]] : S \in {{0, 2} \cup T : T \in SUBSET {1, 3}}}

\* The addresses traces start from.
TraceSources == {1, 2}

NoRun == [valid |-> FALSE, snapshot |-> NetworkTopology(Account, <<>>),
          outcome |-> "none", result |-> TraceResult(NoIp, NoIp), events |-> <<>>]

\* A tracer that has not traced yet and holds a topology: its options are
\* the defaults, built tells where the topology came from.
Tracer(topology, live_routes) ==
    [pc |-> "idle", topology |-> topology, live_routes |-> live_routes,
     has_topology |-> TRUE, built |-> "given",
     no_cache |-> FALSE, refresh_cache |-> FALSE, skip_stale_check |-> FALSE,
     runs |-> 0, snapshot |-> topology, prev |-> NoRun,
     src_eni |-> NoEni, dst_eni |-> NoEni, search |-> 0, src_rt |-> NoTable,
     fw |-> 0, hop_seq |-> 0, result |-> TraceResult(NoIp, NoIp), events |-> <<>>]

TrIdle == Tracer(NetworkTopology(Account, <<>>), <<>>)

\* A core network with attachments comes with a route that leads to it.
HasCoreRoute(routes) == \E i \in 1 .. Len(routes) : routes[i].core_network_arn # ""

\* tgws and tgw_route_tables of the snapshot: the transit gateway of
\* eu-west-1 was discovered or was not; a discovered one comes with a route
\* that leads to it.
Tgws(tgws, tables) == [tgws |-> tgws, tables |-> tables]
TgwChoices ==
    {Tgws(EmptyDict, EmptyDict),
     Tgws(Put(EmptyDict, "eu-west-1", CloudTgws("eu-west-1")),
          [g \in CloudTgws("eu-west-1") |-> {"tgw-rtb-1"}])}
HasTgwRoute(routes) == \E i \in 1 .. Len(routes) : StartsWithTgw(routes[i].target)

TraceInit ==
    \E index \in IndexChoices, cached \in BOOLEAN,
       routes \in TraceRouteLists, cwan \in CwanChoices, tgw \in TgwChoices :
        /\ cwan.atts # <<>> => HasCoreRoute(routes)
        /\ tgw.tgws # EmptyDict => HasTgwRoute(routes)
        /\ tr = Tracer([NetworkTopology(Account, TraceRegions) EXCEPT
                        !.tgws = tgw.tgws,
                        !.tgw_route_tables = tgw.tables,
                        !.eni_index = index,
                        !.route_tables = TraceRouteTables(cached, routes),
                        !.cwan_attachments = cwan.atts,
                        !.cwan_policy = cwan.policy],
                    routes)

\* A tracer that numbers each hop from a counter it never stores.
WithHopUncounted(t, type, id, name, region, detail) ==
    LET hop == Hop(t.hop_seq + 1, type, id, name, region, detail)
    IN [t EXCEPT !.result.hops = Append(@, hop),
                 !.events = Append(@, hop)]

\* A tracer that appends each hop without calling on_hop.
WithHopUnemitted(t, type, id, name, region, detail) ==
    LET hop == Hop(t.hop_seq + 1, type, id, name, region, detail)
    IN [t EXCEPT !.hop_seq = hop.seq,
                 !.result.hops = Append(@, hop)]

\* result.hops.append(hop); self._emit(hop), after hop_seq += 1.
WithHop(t, type, id, name, region, detail) ==
    LET hop == Hop(t.hop_seq + 1, type, id, name, region, detail)
    IN [t EXCEPT !.hop_seq = hop.seq,
                 !.result.hops = Append(@, hop),
                 !.events = Append(@, hop)]

\* return result
Returned(t) == [t EXCEPT !.pc = "done"]

\* trace(src_ip, dst_ip) is called; the topology is loaded already.  A later
\* trace on the same tracer repeats the addresses of the one before.
TraceStart(src_ip, dst_ip) ==
    /\ tr.pc \in {"idle", "done", "raised"}
    /\ tr.runs < MaxTraces
    /\ tr.runs > 0 => src_ip = tr.result.src_ip /\ dst_ip = tr.result.dst_ip
    /\ tr' = [tr EXCEPT
                !.pc = "find_src", !.runs = @ + 1,
                !.prev = IF tr.runs > 0
                         THEN [valid |-> TRUE, snapshot |-> tr.snapshot,
                               outcome |-> tr.pc, result |-> tr.result,
                               events |-> tr.events]
                         ELSE @,
                !.snapshot = tr.topology,
                !.src_eni = NoEni, !.dst_eni = NoEni, !.search = 0,
                !.src_rt = NoTable, !.fw = 0, !.hop_seq = 0,
                !.result = TraceResult(src_ip, dst_ip), !.events = <<>>]
    /\ UNCHANGED <<lpm, stale, disc, store>>

\* The address a lookup is for, and the tracer after the lookup returned.
LookupIp(t) == IF t.pc \in {"find_src", "search_src"} THEN t.result.src_ip
               ELSE t.result.dst_ip
Looked(t, eni) ==
    IF t.pc \in {"find_src", "search_src"}
    THEN [t EXCEPT !.src_eni = eni, !.pc = "find_dst", !.search = 0]
    ELSE [t EXCEPT !.dst_eni = eni, !.pc = "resolved", !.search = 0]

\* _find_eni_cached: the index, else the live search starts.
FindEniCached ==
    /\ tr.pc \in {"find_src", "find_dst"}
    /\ LET eni == FindEniIndexed(tr.topology, LookupIp(tr))
       IN tr' = IF eni # NoEni THEN Looked(tr, eni)
                ELSE [tr EXCEPT !.pc = IF @ = "find_src" THEN "search_src"
                                       ELSE "search_dst",
                                !.search = 1]
    /\ UNCHANGED <<lpm, stale, disc, store>>

\* _find_eni_api: the lookup in the next region of the search order.
FindEniApi ==
    /\ tr.pc \in {"search_src", "search_dst"}
    /\ LET ordered == Ordered(tr.topology.regions)
           ip == LookupIp(tr)
       IN \E eni \in FindEniInRegion(ip, ordered[tr.search]) :
            tr' = IF eni # NoEni
                  THEN Looked([tr EXCEPT !.topology.eni_index =
                                            Put(@, ip, IndexRecord(eni))], eni)
                  ELSE IF tr.search < Len(ordered)
                  THEN [tr EXCEPT !.search = @ + 1]
                  ELSE Looked(tr, NoEni)
    /\ UNCHANGED <<lpm, stale, disc, store>>

SourceNotFound(t) ==
    Reason("Source IP {src_ip} not found in topology", t.result.src_ip, "")
DestinationNotFound(t) ==
    Reason("Destination IP {dst_ip} not found in topology", t.result.dst_ip, "")

\* A tracer that tests the destination before the source.
NotFoundReasonDstFirst(t) ==
    IF t.dst_eni = NoEni THEN DestinationNotFound(t) ELSE SourceNotFound(t)

\* A tracer that returns an unresolved address without a reason.
NotFoundNoReason(t) == NoReason

\* The reason set by the first of the two tests that fires.
NotFoundReason(t) ==
    IF t.src_eni = NoEni THEN SourceNotFound(t) ELSE DestinationNotFound(t)

\* if not src_eni / if not dst_eni
NotFound ==
    /\ tr.pc = "resolved"
    /\ tr.src_eni = NoEni \/ tr.dst_eni = NoEni
    /\ tr' = Returned([tr EXCEPT !.result.blocked_reason = NotFoundReason(tr)])
    /\ UNCHANGED <<lpm, stale, disc, store>>

\* Add source hop
SourceHop ==
    /\ tr.pc = "resolved"
    /\ tr.src_eni # NoEni /\ tr.dst_eni # NoEni
    /\ tr' = [WithHop(tr, "eni", tr.src_eni.eni_id,
                      Label("src", tr.result.src_ip, "", ""), tr.src_eni.region,
                      Detail(tr.src_eni.vpc_id, tr.src_eni.subnet_id, "", ""))
                EXCEPT !.pc = "get_rt"]
    /\ UNCHANGED <<lpm, stale, disc, store>>

\* A tracer that never finds a table in its snapshot.
NoCachedRouteTable(t) == NoTable

CachedRouteTable(t) ==
    GetRouteTableCached(t.topology, t.src_eni.subnet_id, t.src_eni.vpc_id)

\* Step 2: the source's route table, from the snapshot or fetched.
RouteTableHop ==
    /\ tr.pc = "get_rt"
    /\ \E src_rt \in IF CachedRouteTable(tr) # NoTable THEN {CachedRouteTable(tr)}
                     ELSE LiveRouteTables(tr.live_routes, tr.src_eni.vpc_id) :
        tr' = [WithHop(tr, "route_table", src_rt.id, PlainLabel(src_rt.name),
                       tr.src_eni.region, NoDetail)
                 EXCEPT !.src_rt = src_rt, !.pc = "route"]
    /\ UNCHANGED <<lpm, stale, disc, store>>

\* describe_route_tables raises in _get_subnet_route_table; nothing catches.
RouteTableRaises ==
    /\ tr.pc = "get_rt"
    /\ CachedRouteTable(tr) = NoTable
    /\ tr' = [tr EXCEPT !.pc = "raised"]
    /\ UNCHANGED <<lpm, stale, disc, store>>

\* Step 3: route = self._find_best_route(src_rt["routes"], dst_ip)
BestIdx(t) == FindBestRouteIdx(t.src_rt.routes, t.result.dst_ip)
BestRoute(t) == t.src_rt.routes[BestIdx(t)]

\* A tracer that blocks at the first hop of the list.
FirstHop(t) == t.result.hops[1]

\* result.hops[-1]
LastHop(t) == t.result.hops[Len(t.result.hops)]

NoRoute ==
    /\ tr.pc = "route"
    /\ BestIdx(tr) = 0
    /\ tr' = Returned([tr EXCEPT
                !.result.blocked_reason =
                    Reason("No route to {dst_ip} in route table {id}",
                           tr.result.dst_ip, tr.src_rt.id),
                !.result.blocked_at = LastHop(tr)])
    /\ UNCHANGED <<lpm, stale, disc, store>>

\* A tracer that tests for a core network route before the local route.
IsLocalAfterCore(t) ==
    /\ BestRoute(t).target = "local" /\ t.src_eni.vpc_id = t.dst_eni.vpc_id
    /\ BestRoute(t).core_network_arn = ""

\* Step 4: the branch the best route's target selects.
IsLocal(t) ==
    BestRoute(t).target = "local" /\ t.src_eni.vpc_id = t.dst_eni.vpc_id
IsCloudWan(t) == ~IsLocal(t) /\ BestRoute(t).core_network_arn # ""
\* A tracer that follows a transit gateway route only to a transit gateway
\* of its snapshot.
IsTgwDiscovered(t) ==
    /\ ~IsLocal(t) /\ ~IsCloudWan(t) /\ StartsWithTgw(BestRoute(t).target)
    /\ \E r \in DOMAIN t.topology.tgws : BestRoute(t).target \in t.topology.tgws[r]

IsTgw(t) == ~IsLocal(t) /\ ~IsCloudWan(t) /\ StartsWithTgw(BestRoute(t).target)

DestinationLabel(t) == Label("dst", t.result.dst_ip, "", "")

\* Same VPC - direct routing
LocalRoute ==
    /\ tr.pc = "route"
    /\ BestIdx(tr) # 0
    /\ IsLocal(tr)
    /\ tr' = Returned([WithHop(tr, "destination", tr.dst_eni.eni_id,
                               DestinationLabel(tr), tr.dst_eni.region, NoDetail)
                         EXCEPT !.result.reachable = TRUE])
    /\ UNCHANGED <<lpm, stale, disc, store>>

\* result.blocked_reason = f"Unsupported route target: {target}"
UnsupportedTarget ==
    /\ tr.pc = "route"
    /\ BestIdx(tr) # 0
    /\ ~IsLocal(tr) /\ ~IsCloudWan(tr) /\ ~IsTgw(tr)
    /\ tr' = Returned([tr EXCEPT !.result.blocked_reason =
                Reason("Unsupported route target: {target}", NoIp,
                       BestRoute(tr).target)])
    /\ UNCHANGED <<lpm, stale, disc, store>>

\* _trace_via_cloudwan: the segments of the two networks.
SrcSegment(t) == GetSegmentForVpc(t.topology, t.src_eni.vpc_id, t.src_eni.region)
DstSegment(t) == GetSegmentForVpc(t.topology, t.dst_eni.vpc_id, t.dst_eni.region)
Falsy(x) == x \in {None, ""}
SendViaNfg(t) == GetSendViaNfg(t.topology, SrcSegment(t), DstSegment(t))

\* if not src_segment
CloudWanNotAttached ==
    /\ tr.pc = "route"
    /\ BestIdx(tr) # 0
    /\ IsCloudWan(tr)
    /\ Falsy(SrcSegment(tr))
    /\ tr' = Returned([tr EXCEPT !.result.blocked_reason =
                Reason("Source VPC {vpc_id} not attached to Cloud WAN", NoIp,
                       tr.src_eni.vpc_id)])
    /\ UNCHANGED <<lpm, stale, disc, store>>

\* The source segment's hop.
CloudWanSegmentHop ==
    /\ tr.pc = "route"
    /\ BestIdx(tr) # 0
    /\ IsCloudWan(tr)
    /\ ~Falsy(SrcSegment(tr))
    /\ tr' = [WithHop(tr, "cloud_wan_segment", SrcSegment(tr),
                      Label("segment", NoIp, SrcSegment(tr), ""),
                      tr.src_eni.region, NoDetail)
                EXCEPT !.pc = "cwan_nfg"]
    /\ UNCHANGED <<lpm, stale, disc, store>>

\* if nfg: the inspection group's hop.
CloudWanNfgHop ==
    /\ tr.pc = "cwan_nfg"
    /\ ~Falsy(SendViaNfg(tr))
    /\ tr' = [WithHop(tr, "nfg", SendViaNfg(tr),
                      Label("inspection", NoIp, SendViaNfg(tr), ""),
                      tr.src_eni.region, NoDetail)
                EXCEPT !.pc = "cwan_fw", !.fw = 1]
    /\ UNCHANGED <<lpm, stale, disc, store>>

\* The attachments of the group in the source's region not yet visited.
FirewallsLeft(t) ==
    FirewallsFrom(t.topology.cwan_attachments, SendViaNfg(t), t.src_eni.region, t.fw)

\* One pass of the loop over cwan_attachments that appends a hop.
CloudWanFirewallHop ==
    /\ tr.pc = "cwan_fw"
    /\ FirewallsLeft(tr) # {}
    /\ LET i == MinOf(FirewallsLeft(tr))
           att == tr.topology.cwan_attachments[i]
       IN tr' = [WithHop(tr, "firewall", att.ResourceArn.id,
                         PlainLabel(IF att.Name = "" THEN "firewall" ELSE att.Name),
                         att.EdgeLocation, Detail("", "", "", att.AttachmentId))
                   EXCEPT !.fw = i + 1]
    /\ UNCHANGED <<lpm, stale, disc, store>>

\* A tracer that goes on to the destination only when no inspection group
\* applies.
InspectionSkipped(t) == t.pc = "cwan_nfg" /\ Falsy(SendViaNfg(t))

\* Control is past the inspection block.
InspectionDone(t) ==
    \/ t.pc = "cwan_nfg" /\ Falsy(SendViaNfg(t))
    \/ t.pc = "cwan_fw" /\ FirewallsLeft(t) = {}

\* Cross-region?
CloudWanCrossRegionHop ==
    /\ InspectionDone(tr)
    /\ tr.src_eni.region # tr.dst_eni.region
    /\ tr' = [WithHop(tr, "cloud_wan_segment",
                      IF Falsy(DstSegment(tr)) THEN "unknown" ELSE DstSegment(tr),
                      Label("segment@", NoIp, DstSegment(tr), tr.dst_eni.region),
                      tr.dst_eni.region, NoDetail)
                EXCEPT !.pc = "cwan_dst"]
    /\ UNCHANGED <<lpm, stale, disc, store>>

\* Destination
CloudWanDestinationHop ==
    /\ \/ tr.pc = "cwan_dst"
       \/ InspectionDone(tr) /\ tr.src_eni.region = tr.dst_eni.region
    /\ tr' = Returned([WithHop(tr, "destination", tr.dst_eni.eni_id,
                               DestinationLabel(tr), tr.dst_eni.region,
                               Detail(tr.dst_eni.vpc_id, "", DstSegment(tr), ""))
                         EXCEPT !.result.reachable = TRUE])
    /\ UNCHANGED <<lpm, stale, disc, store>>

\* _trace_via_tgw: the transit gateway's hop.
TgwHop ==
    /\ tr.pc = "route"
    /\ BestIdx(tr) # 0
    /\ IsTgw(tr)
    /\ tr' = [WithHop(tr, "tgw", BestRoute(tr).target,
                      PlainLabel("transit-gateway"), tr.src_eni.region, NoDetail)
                EXCEPT !.pc = "tgw_dst"]
    /\ UNCHANGED <<lpm, stale, disc, store>>

TgwDestinationHop ==
    /\ tr.pc = "tgw_dst"
    /\ tr' = Returned([WithHop(tr, "destination", tr.dst_eni.eni_id,
                               DestinationLabel(tr), tr.dst_eni.region, NoDetail)
                         EXCEPT !.result.reachable = TRUE])
    /\ UNCHANGED <<lpm, stale, disc, store>>


(***************************************************************************)
(* SpecRoute: _find_best_route on every bounded route list and address.    *)
(***************************************************************************)
\* Destinations tried: every canonical block, one block written with host
\* bits set, the empty text and an unparsable text.
LpmDests ==
    {c \in {Cidr(b, l) : b \in Addrs, l \in PrefixLens} :
        c.base % Pow2(AddrBits - c.len) = 0}
    \cup {Cidr(1, AddrBits - 1)}
    \cup {EmptyDest, InvalidDest}

LpmRoutes == {Route(d, "local", "", s) : d \in LpmDests, s \in {"active", "blackhole"}}

SeqsUpTo(S, n) == UNION {[1 .. k -> S] : k \in 0 .. n}

LpmIdle == [routes |-> <<>>, dst |-> 0, result |-> -1]

LpmInit ==
    lpm \in [routes : SeqsUpTo(LpmRoutes, MaxRoutes), dst : Addrs, result : {-1}]

FindBestRoute ==
    /\ lpm.result = -1
    /\ lpm' = [lpm EXCEPT !.result = FindBestRouteIdx(lpm.routes, lpm.dst)]
    /\ UNCHANGED <<stale, disc, store, tr>>

NoVerdict == Verdict(FALSE, "pending", "", NoCount, NoCount)

StaleIdle == [file |-> NoFile, current |-> ChangeMarkers(NoVersion, 0, <<>>, <<>>),
              verdict |-> NoVerdict]

InitRoute ==
    /\ LpmInit
    /\ stale = StaleIdle /\ disc = DiscIdle /\ store = StoreIdle /\ tr = TrIdle

NextRoute == FindBestRoute

SpecRoute == InitRoute /\ [][NextRoute]_vars

\* The addresses of a CIDR block, by its range: the block of 2^(bits-len)
\* addresses that holds base.
BlockOf(dest) ==
    LET size == Pow2(AddrBits - dest.len)
        first == CHOOSE a \in Addrs : a % size = 0 /\ a <= dest.base /\ dest.base < a + size
    IN  first .. (first + size - 1)

\* The entries a correct selection may choose from.
Candidates(routes, dst) ==
    {i \in 1 .. Len(routes) :
        /\ routes[i].state # "blackhole"
        /\ routes[i].destination.kind = "cidr"
        /\ dst \in BlockOf(routes[i].destination)}

\* C1: _find_best_route returns the earliest of the non-blackhole entries
\* that contain the address with the greatest prefix length, and None
\* exactly when no non-blackhole entry contains the address.
C1_LongestPrefixMatch ==
    lpm.result # -1 =>
        LET c == Candidates(lpm.routes, lpm.dst)
            r == lpm.result
        IN  /\ (r = 0) <=> (c = {})
            /\ r # 0 =>
                /\ r \in c
                /\ \A j \in c :
                    /\ lpm.routes[j].destination.len <= lpm.routes[r].destination.len
                    /\ lpm.routes[j].destination.len = lpm.routes[r].destination.len
                           => r <= j

\* Two entries of the same maximal length contain the address and the first
\* of the two was returned.
C1_Witness ==
    /\ lpm.result = 1
    /\ Len(lpm.routes) = 2
    /\ Candidates(lpm.routes, lpm.dst) = {1, 2}
    /\ lpm.routes[1].destination.len = lpm.routes[2].destination.len
    /\ lpm.routes[1].destination.len > 0

(***************************************************************************)
(* SpecStale: is_stale on every bounded pair of saved and fresh markers.   *)
(***************************************************************************)
Counts == 0 .. MaxCount
Versions == {NoVersion} \cup (1 .. MaxCount)

CountDicts(regions) == UNION {[S -> Counts] : S \in SUBSET RegionSet(regions)}

\* What get_current_markers can return: a region's vpc count is set only
\* after its tgw count.
MarkerValues(regions) ==
    {m \in [cwan_policy_version : Versions, cwan_attachment_count : Counts,
            tgw_count : CountDicts(regions), vpc_count : CountDicts(regions)] :
        DOMAIN m.vpc_count \subseteq DOMAIN m.tgw_count}

StaleInit ==
    /\ stale \in [file : {NoFile} \cup {SaveMarkers(m, 0) : m \in MarkerValues(MarkerRegions)},
                  current : MarkerValues(MarkerRegions),
                  verdict : {NoVerdict}]

CheckStale ==
    /\ stale.verdict = NoVerdict
    /\ stale' = [stale EXCEPT !.verdict =
                    IsStale(GetSavedMarkers(stale.file, 0), stale.current, MarkerRegions)]
    /\ UNCHANGED <<lpm, disc, store, tr>>

InitStale ==
    /\ StaleInit
    /\ lpm = LpmIdle /\ disc = DiscIdle /\ store = StoreIdle /\ tr = TrIdle

NextStale == CheckStale

SpecStale == InitStale /\ [][NextStale]_vars

StaleChecked == stale.verdict # NoVerdict

\* C4: is_stale answers stale when no markers were saved, and not stale when
\* the fresh markers equal the saved ones field by field.
C4_StalenessMonotonicity ==
    StaleChecked =>
        /\ ~stale.file.present => stale.verdict.stale
        /\ (stale.file.present /\ stale.file.data = ToDict(stale.current))
               => ~stale.verdict.stale

\* Saved and fresh markers are equal, record counts for a region that differ
\* between transit routers and virtual networks, and is_stale said not stale.
C4_Witness ==
    /\ StaleChecked
    /\ stale.file.present
    /\ stale.file.data = ToDict(stale.current)
    /\ \E r \in DOMAIN stale.current.vpc_count :
           stale.current.vpc_count[r] # stale.current.tgw_count[r]
    /\ stale.current.cwan_attachment_count > 0
    /\ ~stale.verdict.stale

\* C5 as stated: a stale verdict on account of a field needs both the saved
\* and the fresh value of that field present and non-zero.
C5_BothPresentAndNonZero ==
    (StaleChecked /\ stale.verdict.stale /\ stale.verdict.kind # "no_markers") =>
        /\ stale.verdict.saved # NoCount /\ stale.verdict.saved # 0
        /\ stale.verdict.current # NoCount /\ stale.verdict.current # 0

\* Whether a field's value is a recorded observation: a policy version that
\* is not None, an attachment count above zero, a region's count that has an
\* entry (a recorded count of zero is an observation).
Present(kind, value) ==
    CASE kind = "policy" -> value # NoVersion
      [] kind = "attachments" -> value > 0
      [] OTHER -> value # NoCount

FieldOf(m, kind, region) ==
    CASE kind = "policy" -> m.cwan_policy_version
      [] kind = "attachments" -> m.cwan_attachment_count
      [] kind = "tgw" -> Get(m.tgw_count, region)
      [] OTHER -> Get(m.vpc_count, region)

\* C5 (amended): a stale verdict on account of a field is given only when the
\* saved and the fresh value of that field are both recorded observations
\* and differ.
C5_BothPresent ==
    (StaleChecked /\ stale.verdict.stale /\ stale.verdict.kind # "no_markers") =>
        LET k == stale.verdict.kind
            s == FieldOf(stale.file.data, k, stale.verdict.region)
            c == FieldOf(stale.current, k, stale.verdict.region)
        IN  /\ Present(k, s) /\ Present(k, c) /\ s # c
            /\ stale.verdict.saved = s /\ stale.verdict.current = c

\* The saved attachment count is zero, the fresh one is not, a region's
\* count went from a recorded zero to one, and the verdict names the region
\* count, not the attachments.
C5_Witness ==
    /\ StaleChecked
    /\ stale.file.present
    /\ stale.file.data.cwan_attachment_count = 0
    /\ stale.current.cwan_attachment_count > 0
    /\ stale.verdict.stale
    /\ stale.verdict.kind = "tgw"
    /\ stale.verdict.saved = 0
    /\ stale.verdict.current > 0

(***************************************************************************)
(* SpecDiscover: one run of discover against the fixed cloud, every unit   *)
(* free to fail at either of its calls.                                    *)
(***************************************************************************)
InitDiscover ==
    /\ disc = DiscIdle /\ store = StoreIdle
    /\ lpm = LpmIdle /\ stale = StaleIdle /\ tr = TrIdle

NextDiscover ==
    \/ DiscoverStart
    \/ \E u \in Units(CloudRegions) : UnitFirstCall(u)
    \/ \E u \in Units(CloudRegions) : UnitSecondCall(u)
    \/ GatherRaises
    \/ GatherReturns
    \/ CacheTopology
    \/ SaveFreshMarkers

SpecDiscover == InitDiscover /\ [][NextDiscover]_vars

\* The regions all of whose units succeeded.
FetchedRegions ==
    {r \in RegionSet(CloudRegions) :
        \A k \in {"tgw", "vpc", "eni"} : disc.unit[Unit(k, r)] = "done"}

\* The snapshot holds what the cloud holds in region r.
HoldsRegion(t, r) ==
    /\ CloudTgws(r) # {} => (r \in DOMAIN t.tgws /\ t.tgws[r] = CloudTgws(r))
    /\ CloudVpcs(r) # {} => (r \in DOMAIN t.vpcs /\ t.vpcs[r] = CloudVpcs(r))
    /\ \A e \in RouteTableEntries(r) :
           e.key \in DOMAIN t.route_tables /\ t.route_tables[e.key] = e.rt
    /\ \A ip \in DOMAIN CloudEnis(r) : ip \in DOMAIN t.eni_index

\* C2: a unit whose fetch fails does not make discover raise; discover
\* completes, and the snapshot returned and persisted holds the data of every
\* region whose fetches succeeded.
C2_PartialFailureTolerated ==
    /\ (\E u \in Units(CloudRegions) : disc.unit[u] = "failed") => disc.pc # "raised"
    /\ disc.pc = "returned" =>
           /\ store.topo.present /\ store.topo.data = disc.topology
           /\ \A r \in FetchedRegions : HoldsRegion(disc.topology, r)

(***************************************************************************)
(* SpecCache: the cache files under discover runs, get_cached calls, cache *)
(* clearing, the clock, account changes and cloud changes.                 *)
(***************************************************************************)
InitCache ==
    /\ disc = DiscIdle /\ store = StoreIdle
    /\ lpm = LpmIdle /\ stale = StaleIdle /\ tr = TrIdle

NextCache ==
    \/ DiscoverFetched
    \/ CacheTopology
    \/ SaveFreshMarkers
    \/ \E c \in BOOLEAN : GetCached(c)
    \/ ClearCache
    \/ Tick
    \/ SwitchAccount
    \/ CloudDrift

SpecCache == InitCache /\ [][NextCache]_vars

\* C3: get_cached(check_staleness=true) returns a snapshot only if one is
\* persisted for the current account and unexpired and is_stale does not
\* answer stale; when is_stale would answer stale (no markers saved
\* included) it returns None.
C3_GetCachedOnlyIfNotStale ==
    (store.ret.called /\ store.ret.check_staleness /\ store.ret.topology.present) =>
        /\ store.ret.fresh
        /\ ~store.ret.would_be_stale

(***************************************************************************)
(* SpecTrace: traces on a tracer whose topology is loaded, for every       *)
(* bounded snapshot, source and destination.                               *)
(***************************************************************************)
InitTrace ==
    /\ TraceInit
    /\ lpm = LpmIdle /\ stale = StaleIdle /\ disc = DiscIdle /\ store = StoreIdle

NextTrace ==
    \/ \E src_ip \in TraceSources, dst_ip \in Addrs : TraceStart(src_ip, dst_ip)
    \/ FindEniCached
    \/ FindEniApi
    \/ NotFound
    \/ SourceHop
    \/ RouteTableHop
    \/ RouteTableRaises
    \/ NoRoute
    \/ LocalRoute
    \/ CloudWanNotAttached
    \/ CloudWanSegmentHop
    \/ CloudWanNfgHop
    \/ CloudWanFirewallHop
    \/ CloudWanCrossRegionHop
    \/ CloudWanDestinationHop
    \/ TgwHop
    \/ TgwDestinationHop
    \/ UnsupportedTarget

SpecTrace == InitTrace /\ [][NextTrace]_vars

\* trace has returned or raised.
Finished == tr.pc \in {"done", "raised"}

\* Both lookups of the finished trace found an interface.
Resolved == tr.src_eni # NoEni /\ tr.dst_eni # NoEni

HopTypes(hops) == [i \in 1 .. Len(hops) |-> hops[i].type]

\* The previous trace on this tracer started from the same topology with
\* the same addresses.
SameRun ==
    /\ tr.prev.valid
    /\ Finished
    /\ tr.prev.snapshot = tr.snapshot
    /\ tr.prev.result.src_ip = tr.result.src_ip
    /\ tr.prev.result.dst_ip = tr.result.dst_ip

SameOutcome == tr.pc = tr.prev.outcome /\ tr.result = tr.prev.result

\* C6 as stated: two traces of the same addresses that start from the same
\* topology snapshot end the same way, with the same hops, reachable,
\* blocked_at and blocked_reason.
C6_FixedSnapshotSameResult == SameRun => SameOutcome

\* The trace makes no live lookup: the snapshot's index holds both addresses
\* and the snapshot holds a route table for the source's subnet or network.
NoLiveLookup ==
    /\ tr.result.src_ip \in DOMAIN tr.snapshot.eni_index
    /\ tr.result.dst_ip \in DOMAIN tr.snapshot.eni_index
    /\ LET e == tr.snapshot.eni_index[tr.result.src_ip]
       IN \/ SubnetKey(e.subnet_id) \in DOMAIN tr.snapshot.route_tables
          \/ MainKey(e.vpc_id) \in DOMAIN tr.snapshot.route_tables

\* C6: two traces of the same addresses that start from the same topology
\* snapshot end the same way, with the same hops, reachable, blocked_at and
\* blocked_reason, when the snapshot's index holds both addresses and the
\* snapshot holds the source's route table.
C6_IndexedSnapshotSameResult == SameRun /\ NoLiveLookup => SameOutcome

\* A second trace through two firewalls to another region repeated the
\* first one hop for hop.
C6_Witness ==
    /\ SameRun /\ NoLiveLookup
    /\ tr.pc = "done" /\ tr.result.reachable
    /\ Len(tr.result.hops) = 8
    /\ tr.prev.result.hops = tr.result.hops

\* C7: at every step of a trace and in the result it returns, the hops are
\* numbered from 1 and each number is greater than the one before it.
C7_HopSequenceIncreasing ==
    LET hops == tr.result.hops
    IN  /\ hops # <<>> => hops[1].seq = 1
        /\ \A i, j \in 1 .. Len(hops) : i < j => hops[i].seq < hops[j].seq

\* A trace returned hops of the core network branch with inspection, two
\* firewalls and a cross-region segment.
C7_Witness ==
    /\ tr.pc = "done"
    /\ \E i, j, k \in 1 .. Len(tr.result.hops) :
        /\ i < j /\ j < k
        /\ tr.result.hops[i].type = "nfg"
        /\ tr.result.hops[j].type = "firewall"
        /\ tr.result.hops[k].type = "cloud_wan_segment"
    /\ tr.result.hops[Len(tr.result.hops)].type = "destination"

\* C8: a trace one of whose addresses was found neither in the index nor
\* by the live search returns without raising, with no hop, no hop event,
\* reachable false, and a reason that names the source address when the
\* source was not found and the destination address otherwise.
C8_UnresolvedAddress ==
    Finished /\ ~Resolved =>
        /\ tr.pc = "done"
        /\ tr.result.hops = <<>>
        /\ tr.events = <<>>
        /\ ~tr.result.reachable
        /\ tr.result.blocked_at = NoHop
        /\ IF tr.src_eni = NoEni
           THEN /\ tr.result.blocked_reason.ip = tr.result.src_ip
                /\ tr.result.blocked_reason.text =
                       "Source IP {src_ip} not found in topology"
           ELSE /\ tr.result.blocked_reason.ip = tr.result.dst_ip
                /\ tr.result.blocked_reason.text =
                       "Destination IP {dst_ip} not found in topology"

\* A trace returned after neither of two different addresses was found.
C8_Witness ==
    /\ tr.pc = "done"
    /\ tr.src_eni = NoEni /\ tr.dst_eni = NoEni
    /\ tr.result.src_ip # tr.result.dst_ip
    /\ tr.result.blocked_reason.ip = tr.result.src_ip

\* The finished trace got a route table for its source.
HasRouteTable == tr.src_rt # NoTable

\* C9: a trace both of whose addresses were found and whose source route
\* table has no non-blackhole route that contains the destination returns
\* without raising, with exactly an eni hop and a route_table hop,
\* reachable false, blocked_at the route_table hop, and a reason that holds
\* the destination address and the table's id.
C9_NoRouteBlocked ==
    Finished /\ Resolved /\ HasRouteTable
             /\ Candidates(tr.src_rt.routes, tr.result.dst_ip) = {} =>
        /\ tr.pc = "done"
        /\ HopTypes(tr.result.hops) = <<"eni", "route_table">>
        /\ tr.events = tr.result.hops
        /\ ~tr.result.reachable
        /\ tr.result.blocked_at = tr.result.hops[2]
        /\ tr.result.hops[2].id = tr.src_rt.id
        /\ tr.result.blocked_reason =
               Reason("No route to {dst_ip} in route table {id}",
                      tr.result.dst_ip, tr.src_rt.id)

\* A trace was blocked at the route table although a blackholed route of
\* the table contains the destination.
C9_Witness ==
    /\ tr.pc = "done" /\ Resolved
    /\ tr.result.blocked_at # NoHop
    /\ \E i \in 1 .. Len(tr.src_rt.routes) :
        /\ tr.src_rt.routes[i].state = "blackhole"
        /\ tr.result.dst_ip \in BlockOf(tr.src_rt.routes[i].destination)

\* The routes of the source's table that the longest prefix match selects
\* from, and the one it selects.
Covering == Candidates(tr.src_rt.routes, tr.result.dst_ip)
Selected ==
    CHOOSE r \in Covering : \A j \in Covering :
        /\ tr.src_rt.routes[j].destination.len <= tr.src_rt.routes[r].destination.len
        /\ tr.src_rt.routes[j].destination.len = tr.src_rt.routes[r].destination.len
               => r <= j

\* C10: a trace whose two interfaces are in the same VPC and whose longest
\* prefix match for the destination has target "local" returns exactly the
\* hops eni, route_table, destination, reachable true and no reason.
C10_LocalSameVpc ==
    Finished /\ Resolved /\ HasRouteTable
             /\ tr.src_eni.vpc_id = tr.dst_eni.vpc_id
             /\ Covering # {}
             /\ tr.src_rt.routes[Selected].target = "local" =>
        /\ tr.pc = "done"
        /\ HopTypes(tr.result.hops) = <<"eni", "route_table", "destination">>
        /\ tr.result.hops[3].id = tr.dst_eni.eni_id
        /\ tr.result.reachable
        /\ tr.result.blocked_reason = NoReason
        /\ tr.result.blocked_at = NoHop

\* A trace between two different addresses of one VPC was delivered by a
\* local route that is more specific than another route to the destination.
C10_Witness ==
    /\ tr.pc = "done" /\ Resolved
    /\ tr.result.src_ip # tr.result.dst_ip
    /\ tr.src_eni.vpc_id = tr.dst_eni.vpc_id
    /\ Cardinality(Covering) = 2
    /\ tr.src_rt.routes[Selected].target = "local"
    /\ tr.result.reachable

\* The finished trace went through the core network: its best route carries a
\* core network reference, is not a local delivery, and the source's VPC is
\* attached.
ViaCloudWan ==
    /\ tr.pc = "done" /\ Resolved /\ HasRouteTable
    /\ BestIdx(tr) # 0
    /\ IsCloudWan(tr)
    /\ ~Falsy(SrcSegment(tr))

\* C11: a trace through the core network between two interfaces of one
\* region, under a send-via action for the two segments that names an
\* inspection group, returns exactly the hops eni, route_table,
\* cloud_wan_segment, nfg, firewall, destination with reachable true, the one
\* firewall hop holding the id of an attachment of that group in that region.
C11_OneFirewallHop ==
    ViaCloudWan /\ tr.src_eni.region = tr.dst_eni.region
                /\ ~Falsy(SendViaNfg(tr)) =>
        /\ HopTypes(tr.result.hops) =
               <<"eni", "route_table", "cloud_wan_segment", "nfg", "firewall",
                 "destination">>
        /\ tr.result.reachable
        /\ \E i \in 1 .. Len(tr.topology.cwan_attachments) :
            LET att == tr.topology.cwan_attachments[i]
            IN  /\ att.NetworkFunctionGroupName = SendViaNfg(tr)
                /\ att.EdgeLocation = tr.src_eni.region
                /\ tr.result.hops[5].detail.attachment_id = att.AttachmentId

\* C12: a trace whose longest prefix match carries a core network reference
\* takes the core network branch: it returns a cloud_wan_segment hop for the
\* source's segment, or is blocked because the source's VPC is not attached
\* to the core network.
C12_CoreRouteTakesCoreBranch ==
    Finished /\ Resolved /\ HasRouteTable /\ Covering # {}
             /\ tr.src_rt.routes[Selected].core_network_arn # "" =>
        /\ tr.pc = "done"
        /\ \/ \E i \in 1 .. Len(tr.result.hops) :
                /\ tr.result.hops[i].type = "cloud_wan_segment"
                /\ tr.result.hops[i].id = SrcSegment(tr)
           \/ /\ ~tr.result.reachable
              /\ tr.result.blocked_reason =
                     Reason("Source VPC {vpc_id} not attached to Cloud WAN", NoIp,
                            tr.src_eni.vpc_id)

\* C13: a trace whose longest prefix match has no core network reference
\* and a target that starts with "tgw-" returns exactly the hops eni,
\* route_table, tgw, destination, the tgw hop for that target, with reachable
\* true, whether or not the snapshot holds that transit gateway.
C13_TgwRouteFourHops ==
    Finished /\ Resolved /\ HasRouteTable /\ Covering # {}
             /\ tr.src_rt.routes[Selected].core_network_arn = ""
             /\ StartsWithTgw(tr.src_rt.routes[Selected].target) =>
        /\ tr.pc = "done"
        /\ HopTypes(tr.result.hops) = <<"eni", "route_table", "tgw", "destination">>
        /\ tr.result.hops[3].id = tr.src_rt.routes[Selected].target
        /\ tr.result.hops[4].id = tr.dst_eni.eni_id
        /\ tr.result.reachable
        /\ tr.result.blocked_reason = NoReason

\* A trace to another region was delivered through a transit gateway that
\* the snapshot does not hold.
C13_Witness ==
    /\ tr.pc = "done" /\ Resolved
    /\ Len(tr.result.hops) = 4
    /\ tr.result.hops[3].type = "tgw"
    /\ tr.result.reachable
    /\ tr.topology.tgws = EmptyDict
    /\ tr.src_eni.region # tr.dst_eni.region

\* C14: a trace whose longest prefix match is not a "local" route between
\* interfaces of one VPC, has no core network reference and has no "tgw-"
\* target returns without raising, with reachable false, no destination hop
\* and a reason that holds the target.
C14_UnsupportedTargetBlocked ==
    Finished /\ Resolved /\ HasRouteTable /\ Covering # {}
             /\ ~(/\ tr.src_rt.routes[Selected].target = "local"
                  /\ tr.src_eni.vpc_id = tr.dst_eni.vpc_id)
             /\ tr.src_rt.routes[Selected].core_network_arn = ""
             /\ tr.src_rt.routes[Selected].target \notin TgwTargets =>
        /\ tr.pc = "done"
        /\ ~tr.result.reachable
        /\ \A i \in 1 .. Len(tr.result.hops) : tr.result.hops[i].type # "destination"
        /\ tr.events = tr.result.hops
        /\ tr.result.blocked_reason =
               Reason("Unsupported route target: {target}", NoIp,
                      tr.src_rt.routes[Selected].target)

\* A trace was blocked on a "local" route to an interface of another VPC.
C14_Witness ==
    /\ tr.pc = "done" /\ Resolved
    /\ tr.src_eni.vpc_id # tr.dst_eni.vpc_id
    /\ ~tr.result.reachable
    /\ tr.result.blocked_reason =
           Reason("Unsupported route target: {target}", NoIp, "local")

(***************************************************************************)
(* SpecEnsure: _ensure_topology of a new tracer, for every choice of its   *)
(* options, beside another process that persists and clears the topology   *)
(* file, the clock and account changes.                                    *)
(***************************************************************************)
\* AWSTraceroute(no_cache=..., refresh_cache=..., skip_stale_check=...):
\* self._topology = None.
NewTracer(no_cache, refresh_cache, skip_stale_check) ==
    [Tracer(NoTopology, <<>>) EXCEPT
        !.has_topology = FALSE, !.built = "none",
        !.no_cache = no_cache, !.refresh_cache = refresh_cache,
        !.skip_stale_check = skip_stale_check]

\* Where _ensure_topology goes after the refresh_cache block.
\* A tracer that goes to discover whatever no_cache says.
AfterRefreshNoCache(t) == "discover"

\* A tracer that reads the cache whatever no_cache says.
AfterRefreshReads(t) == "get"

AfterRefresh(t) == IF ~t.no_cache THEN "get" ELSE "discover"

\* A tracer that never takes what it holds for loaded.
NeverHeld(t) == FALSE

\* if self._topology: return
Held(t) == t.has_topology

\* trace calls _ensure_topology: it returns at once when a topology is held.
EnsureTopology ==
    /\ tr.pc = "idle"
    /\ tr.runs < MaxTraces
    /\ tr' = [tr EXCEPT
                !.runs = @ + 1,
                !.pc = IF Held(tr) THEN "loaded"
                       ELSE IF tr.refresh_cache THEN "clear"
                       ELSE AfterRefresh(tr)]
    /\ UNCHANGED <<lpm, stale, disc, store>>

\* if self._refresh_cache: self._discovery.clear_cache()
EnsureClearCache ==
    /\ tr.pc = "clear"
    /\ store' = [store EXCEPT !.topo = CacheClear(@),
                              !.ret = [NoReturn EXCEPT !.cleared = TRUE]]
    /\ tr' = [tr EXCEPT !.pc = AfterRefresh(tr)]
    /\ UNCHANGED <<lpm, stale, disc>>

\* self._topology = self._discovery.get_cached(check_staleness=...)
EnsureGetCached ==
    /\ tr.pc = "get"
    /\ \E fails \in SomeFails(CloudRegions) :
        LET r == GetCachedResult(~tr.skip_stale_check, fails)
        IN  /\ store' = AfterGetCached(~tr.skip_stale_check, r)
            /\ tr' = IF r.topology.present
                     THEN [tr EXCEPT !.topology = r.topology.d, !.has_topology = TRUE,
                                     !.built = "cache", !.pc = "loaded"]
                     ELSE [tr EXCEPT !.pc = "discover"]
    /\ UNCHANGED <<lpm, stale, disc>>

\* self._topology = await self._discovery.discover(): the run starts.
EnsureDiscover ==
    /\ tr.pc = "discover"
    /\ disc' = Fetched(disc)
    /\ tr' = [tr EXCEPT !.pc = "await"]
    /\ UNCHANGED <<lpm, stale, store>>

\* discover raises (a fetch failed): so does trace.
EnsureDiscoverRaises ==
    /\ tr.pc = "discover"
    /\ disc' = [disc EXCEPT !.pc = "raised"]
    /\ tr' = [tr EXCEPT !.pc = "raised"]
    /\ UNCHANGED <<lpm, stale, store>>

\* discover returns its topology.
EnsureDiscovered ==
    /\ tr.pc = "await"
    /\ disc.pc = "returned"
    /\ tr' = [tr EXCEPT !.topology = disc.topology, !.has_topology = TRUE,
                        !.built = "discover", !.pc = "loaded"]
    /\ UNCHANGED <<lpm, stale, disc, store>>

\* The trace against the held topology runs and returns.
TraceReturns ==
    /\ tr.pc = "loaded"
    /\ tr' = [tr EXCEPT !.pc = "idle"]
    /\ UNCHANGED <<lpm, stale, disc, store>>

\* Another process finishes a discover run and persists its snapshot.
OtherProcessPersists ==
    /\ store' = [store EXCEPT
                   !.topo = CacheSet(Discovered(store.account), store.account, store.now),
                   !.ret.cleared = FALSE]
    /\ UNCHANGED <<lpm, stale, disc, tr>>

\* Another process (or the user's clear-cache command) deletes the snapshot
\* file.
OtherProcessClears ==
    /\ store.topo.present
    /\ store' = [store EXCEPT !.topo = CacheClear(@)]
    /\ UNCHANGED <<lpm, stale, disc, tr>>

\* No marker call fails.
NoFails(regions) == [nm |-> "none", ec2 |-> [r \in RegionSet(regions) |-> "none"]]

\* The other process saves the markers of its run, every call answering.
OtherProcessSavesMarkers ==
    /\ store' = [store EXCEPT
                    !.markers = SaveMarkers(
                        GetCurrentMarkers(store.cloud,
                                          Take(CloudRegions, MaxMarkerRegions),
                                          NoFails(CloudRegions)),
                        store.now)]
    /\ UNCHANGED <<lpm, stale, disc, tr>>

InitEnsure ==
    /\ \E no_cache, refresh_cache, skip_stale_check \in BOOLEAN :
        tr = NewTracer(no_cache, refresh_cache, skip_stale_check)
    /\ disc = DiscIdle /\ store = StoreIdle
    /\ lpm = LpmIdle /\ stale = StaleIdle

\* The tracer has yet to read the cache files or to resolve the account:
\* what the other process, the clock, the account and the cloud do after its
\* last read is left out.
Ensuring == ~tr.has_topology /\ tr.pc \in {"idle", "clear", "get", "discover"}

\* The tracer holds a topology and waits for its next trace call.
BetweenTraces == tr.has_topology /\ tr.pc = "idle"

NextEnsure ==
    \/ EnsureTopology
    \/ EnsureClearCache
    \/ EnsureGetCached
    \/ EnsureDiscover
    \/ EnsureDiscoverRaises
    \/ EnsureDiscovered
    \/ TraceReturns
    \/ CacheTopology
    \/ SaveFreshMarkers
    \/ BetweenTraces /\ OtherProcessClears
    \/ BetweenTraces /\ Tick
    \/ BetweenTraces /\ CloudDrift
    \/ Ensuring /\ OtherProcessPersists
    \/ Ensuring /\ OtherProcessSavesMarkers
    \/ Ensuring /\ Tick
    \/ Ensuring /\ SwitchAccount
    \/ Ensuring /\ CloudDrift

SpecEnsure == InitEnsure /\ [][NextEnsure]_vars

\* C15: a get_cached call that finds a topology file stored under another
\* account returns None and leaves no file; the tracer that made the call
\* holds a topology only from a discover run, which persisted it under the
\* current account; and get_cached never returns a snapshot of an account
\* other than the one it resolved.
C15_OtherAccountPurged ==
    /\ store.ret.called /\ store.ret.other_account =>
        /\ ~store.ret.topology.present
        /\ ~store.ret.file_left
        /\ tr.has_topology =>
            /\ tr.built = "discover"
            /\ tr.topology.account_id = store.account
        /\ tr.pc = "loaded" /\ tr.runs = 1 =>
            /\ store.topo.present
            /\ store.topo.account_id = store.account
            /\ store.topo.data = tr.topology
    /\ store.ret.called /\ store.ret.topology.present =>
        store.ret.topology.d.account_id = store.ret.account

\* A tracer found a snapshot of another account, discovered, and the file
\* now holds its own snapshot.
C15_Witness ==
    /\ store.ret.called /\ store.ret.other_account
    /\ tr.has_topology /\ tr.built = "discover"
    /\ store.topo.present /\ store.topo.account_id = store.account

\* ------------------------------------------------------------------
\* The file cache on its own: one Cache object whose set, get and clear
\* are called in any order while the clock advances.

\* Values a caller may hand to Cache.set.
Values ==
    {[kind |-> k, v |-> "v"] : k \in {"dict", "list", "tuple", "datetime"}}

\* json.loads(json.dumps(data, default=str)): a tuple comes back as a list
\* and a value json cannot encode comes back as its str().
Json(data) ==
    CASE data.kind = "tuple" -> [data EXCEPT !.kind = "list"]
      [] data.kind = "datetime" -> [data EXCEPT !.kind = "str"]
      [] OTHER -> data

\* `ttl_seconds or get_default_ttl()`: None and 0 give the default.
TtlOr(ttl_seconds) == IF ttl_seconds = 0 THEN DefaultTtl ELSE ttl_seconds

\* Cache.set with every argument; the file holds what json.loads reads back.
CacheSetTtl(data, ttl_seconds, account_id, now) ==
    CacheFile(Json(data), now, TtlOr(ttl_seconds), account_id)

TtlChoices == {0, 1, 2}
AccountChoices == {None, Account, OtherAccount}

\* No call made yet.
NoCall ==
    [op |-> "none", before |-> NoFile, at |-> 0, ignore_expiry |-> FALSE,
     current_account |-> None, data |-> NoData, stored |-> NoData]

FileIdle == [StoreIdle EXCEPT !.ret = NoCall]

\* cache.set(data, ttl_seconds, account_id)
FileSet ==
    \E data \in Values, ttl_seconds \in TtlChoices,
       account_id \in AccountChoices :
        /\ store' = [store EXCEPT
                       !.topo = CacheSetTtl(data, ttl_seconds, account_id,
                                            store.now),
                       !.ret = [NoCall EXCEPT !.op = "set",
                                              !.at = store.now,
                                              !.stored = Data(data)]]
        /\ UNCHANGED <<lpm, stale, disc, tr>>

\* cache.get(ignore_expiry, current_account)
FileGet ==
    \E ignore_expiry \in BOOLEAN, current_account \in AccountChoices :
        LET r == CacheGet(store.topo, ignore_expiry, current_account,
                          store.now)
        IN  /\ store' = [store EXCEPT
                           !.topo = r.file,
                           !.ret = [op |-> "get", before |-> store.topo,
                                    at |-> store.now,
                                    ignore_expiry |-> ignore_expiry,
                                    current_account |-> current_account,
                                    data |-> r.data,
                                    stored |-> store.ret.stored]]
            /\ UNCHANGED <<lpm, stale, disc, tr>>

\* cache.clear()
FileClear ==
    /\ store' = [store EXCEPT
                   !.topo = CacheClear(store.topo),
                   !.ret = [NoCall EXCEPT !.op = "clear",
                                          !.before = store.topo,
                                          !.at = store.now,
                                          !.stored = store.ret.stored]]
    /\ UNCHANGED <<lpm, stale, disc, tr>>

FileTick ==
    /\ store.now < MaxTime
    /\ store' = [store EXCEPT !.now = @ + 1]
    /\ UNCHANGED <<lpm, stale, disc, tr>>

InitFile ==
    /\ lpm = LpmIdle
    /\ stale = StaleIdle
    /\ disc = DiscIdle
    /\ tr = TrIdle
    /\ store = FileIdle

NextFile == FileSet \/ FileGet \/ FileClear \/ FileTick

SpecFile == InitFile /\ [][NextFile]_vars

\* The last call was a get that met a file.
GotFile == store.ret.op = "get" /\ store.ret.before.present

\* The age of the file that get met exceeds its ttl_seconds.
Older == store.ret.at - store.ret.before.cached_at > store.ret.before.ttl_seconds

\* C16 as stated: an entry older than its ttl is a miss for every get that
\* does not ignore expiry and stays in place, a get with ignore_expiry
\* returns its data, and an entry within its ttl whose account matches is
\* returned as it was stored.
C16_TtlScopesEveryLookup ==
    GotFile =>
        LET c == store.ret
        IN  /\ ~c.ignore_expiry /\ Older =>
                ~c.data.present /\ store.topo = c.before
            /\ c.ignore_expiry => c.data.present
            /\ ~Older
                 /\ ~AccountMismatch(c.before, c.current_account) =>
                c.data = c.stored

\* C16: for a get whose account does not differ from the entry's, an entry
\* older than its ttl is a miss unless expiry is ignored and stays in place,
\* a get with ignore_expiry returns its data, and an entry within its ttl is
\* returned as json reads back what was stored, the file left as it was.
C16_TtlScopesMatchingLookups ==
    GotFile /\ ~AccountMismatch(store.ret.before, store.ret.current_account) =>
        LET c == store.ret
        IN  /\ store.topo = c.before
            /\ ~c.ignore_expiry /\ Older => ~c.data.present
            /\ c.ignore_expiry \/ ~Older =>
                /\ c.data = Data(c.before.data)
                /\ c.data = Data(Json(c.stored.d))
                /\ c.stored.d.kind \in {"dict", "list"} => c.data = c.stored

\* An entry older than its ttl was returned to a get that ignores expiry.
C16_Witness ==
    /\ GotFile
    /\ ~AccountMismatch(store.ret.before, store.ret.current_account)
    /\ Older
    /\ store.ret.ignore_expiry
    /\ store.ret.data = store.ret.stored

\* ------------------------------------------------------------------
\* discover runs one after another in an account with six regions enabled,
\* over the two regions that hold resources or over all six, while the
\* clock, the credentials and the cloud change between its awaits.

\* describe_regions of an account with six regions enabled.
WideRegions ==
    <<"us-east-1", "eu-west-1", "ap-south-1", "ap-northeast-1",
      "sa-east-1", "ca-central-1">>

RegionChoices == {CloudRegions, WideRegions}

WideCloud ==
    [DiscoverCloud EXCEPT
        !.tgw = [r \in RegionSet(WideRegions) |-> Cardinality(CloudTgws(r))],
        !.vpc = [r \in RegionSet(WideRegions) |-> Cardinality(CloudVpcs(r))]]

\* Markers an earlier run saved.
EarlierMarkers ==
    ChangeMarkers(MaxCount, 1,
                  [r \in RegionSet(CloudRegions) |-> 0],
                  [r \in RegionSet(CloudRegions) |-> 0])

\* discover(regions) up to the end of _build_eni_index, no fetch failing.
DiscoverRegions ==
    /\ disc.pc = "idle"
    /\ \E regions \in RegionChoices :
        disc' = [pc |-> "index",
                 topology |-> FetchAll(NetworkTopology(store.account, regions),
                                       UnitOrder(regions)),
                 unit |-> [u \in Units(regions) |-> "done"]]
    /\ UNCHANGED <<lpm, stale, store, tr>>

\* The caller has the topology discover returned.
DiscoverReturned ==
    /\ disc.pc = "returned"
    /\ disc' = [disc EXCEPT !.pc = "idle"]
    /\ UNCHANGED <<lpm, stale, store, tr>>

\* discover is not running, or waits between its fetches and its writes.
BetweenAwaits == disc.pc \in {"idle", "index"}

InitPersist ==
    /\ lpm = LpmIdle /\ stale = StaleIdle /\ tr = TrIdle
    /\ disc = DiscIdle
    /\ \E markers \in {NoFile, SaveMarkers(EarlierMarkers, 0)} :
        store = [StoreIdle EXCEPT !.cloud = WideCloud, !.markers = markers]

NextPersist ==
    \/ DiscoverRegions
    \/ CacheTopology
    \/ SaveFreshMarkers
    \/ DiscoverReturned
    \/ BetweenAwaits /\ Tick
    \/ BetweenAwaits /\ SwitchAccount
    \/ BetweenAwaits /\ CloudDrift

SpecPersist == InitPersist /\ [][NextPersist]_vars

\* The topology file holds the snapshot discover returns, written now under
\* the account id of the snapshot, which discover resolved when it started.
SnapshotPersisted ==
    /\ store.topo.present
    /\ store.topo.data = disc.topology
    /\ store.topo.account_id = disc.topology.account_id
    /\ store.topo.account_id \in {Account, OtherAccount}
    /\ store.topo.cached_at = store.now
    /\ store.topo.ttl_seconds = DefaultTtl

\* The markers file was written now and holds exactly the counts and the
\* policy version the cloud has now, for every one of regions but those
\* whose call failed.
MarkersPersistedFor(regions) ==
    /\ store.markers.present
    /\ store.markers.cached_at = store.now
    /\ \E fails \in SomeFails(disc.topology.regions) :
        LET m == store.markers.data
        IN  /\ DOMAIN m.tgw_count = {r \in RegionSet(regions) : fails.ec2[r] # "tgw"}
            /\ DOMAIN m.vpc_count = {r \in RegionSet(regions) : fails.ec2[r] = "none"}
            /\ \A r \in DOMAIN m.tgw_count : m.tgw_count[r] = store.cloud.tgw[r]
            /\ \A r \in DOMAIN m.vpc_count : m.vpc_count[r] = store.cloud.vpc[r]
            /\ m.cwan_policy_version =
                   IF fails.nm = "none" THEN store.cloud.pv ELSE NoVersion
            /\ m.cwan_attachment_count =
                   IF fails.nm = "none" THEN store.cloud.att ELSE 0

\* C17 as stated: when discover returns, the topology file holds the
\* returned snapshot under the account resolved at its start and the
\* markers file holds fresh markers for the regions the run examined.
C17_PersistsSnapshotAndMarkers ==
    disc.pc = "returned" =>
        SnapshotPersisted /\ MarkersPersistedFor(disc.topology.regions)

\* C17: when discover returns, the topology file holds the returned
\* snapshot under the account resolved at its start and the markers file
\* holds fresh markers for the first five of the regions the run examined,
\* in place of any markers saved before.
C17_PersistsSnapshotAndFirstFiveMarkers ==
    disc.pc = "returned" =>
        /\ SnapshotPersisted
        /\ MarkersPersistedFor(Take(disc.topology.regions, MaxMarkerRegions))

\* A run over six regions returned after the account and the clock changed,
\* its markers written over the earlier ones.
C17_Witness ==
    /\ disc.pc = "returned"
    /\ Len(disc.topology.regions) > MaxMarkerRegions
    /\ store.now > 0
    /\ store.markers.present /\ store.markers.cached_at = store.now
    /\ store.topo.present /\ store.topo.account_id # store.account

\* C18: after clear_cache no topology file is left and get_cached returns
\* None until a discover run persists a snapshot; clearing what is already
\* clear changes nothing, and clearing twice leaves what clearing once
\* leaves; a clear_cache step leaves the markers file, the clock and the
\* account as they were.
C18_ClearCacheIdempotent ==
    /\ [](/\ store.ret.cleared => ~store.topo.present
          /\ store.ret.cleared /\ store.ret.called => ~store.ret.topology.present
          /\ ~store.topo.present => CacheClear(store.topo) = store.topo
          /\ CacheClear(CacheClear(store.topo)) = CacheClear(store.topo))
    /\ [][store'.ret # store.ret /\ store'.ret.cleared /\ ~store'.ret.called =>
            /\ ~store'.topo.present
            /\ store'.markers = store.markers
            /\ store'.now = store.now /\ store'.account = store.account
            /\ store'.cloud = store.cloud
            /\ ~store.topo.present => store'.topo = store.topo]_vars

\* get_cached returned None after a clear_cache that deleted a snapshot of
\* the current account, the markers file still in place.
C18_Witness ==
    /\ store.ret.cleared /\ store.ret.called
    /\ ~store.ret.topology.present
    /\ store.markers.present
    /\ disc.pc = "returned" /\ disc.topology.account_id = store.account

\* C19: at every moment of a trace the hops handed to on_hop so far are the
\* hops of the result, in order, and so at return; a step that appends a
\* hop appends one hop and hands that hop, once, to on_hop.
C19_HopEventsFollowHops ==
    /\ [](tr.events = tr.result.hops)
    /\ [][tr'.runs = tr.runs /\ tr'.result.hops # tr.result.hops =>
            \E hop \in {tr'.result.hops[Len(tr'.result.hops)]} :
                /\ tr'.result.hops = Append(tr.result.hops, hop)
                /\ tr'.events = Append(tr.events, hop)]_vars

\* A trace through the backbone with an inspection group has handed its
\* first four hops to on_hop and has not returned yet.
C19_Witness ==
    /\ tr.pc \notin {"idle", "done", "raised"}
    /\ Len(tr.result.hops) = 4
    /\ tr.result.hops[4].type = "nfg"
    /\ tr.events = tr.result.hops

\* C20: a tracer built with refresh_cache holds, once its first trace has
\* loaded a topology, a topology that its own discover run built, never one
\* read from the cache.
C20_RefreshAlwaysDiscovers ==
    tr.refresh_cache /\ tr.has_topology => tr.built = "discover"

\* get_cached was called and met a snapshot of the current account that had
\* not expired and that is_stale did not judge stale.
MetTrustedSnapshot ==
    store.ret.called /\ store.ret.fresh /\ ~store.ret.would_be_stale

\* C21: a tracer with neither no_cache nor refresh_cache whose get_cached
\* meets an unexpired snapshot of the current account that is not judged
\* stale traces against that snapshot and never starts discover; discover
\* is started only after a get_cached that met no such snapshot; and the
\* get_cached step and every later step of that tracer leave the topology
\* file and the markers file as they were.
C21_TrustedSnapshotUsed ==
    /\ [](~tr.no_cache /\ ~tr.refresh_cache =>
            /\ MetTrustedSnapshot =>
                /\ tr.has_topology /\ tr.built = "cache"
                /\ disc = DiscIdle
                /\ tr.pc = "loaded" /\ tr.runs = 1 =>
                    store.topo.present /\ tr.topology = store.topo.data
            /\ tr.pc \in {"discover", "await", "raised"} \/ tr.built = "discover" =>
                store.ret.called /\ ~MetTrustedSnapshot)
    /\ [][/\ ~tr.no_cache /\ ~tr.refresh_cache
          /\ tr.pc = "get" \/ tr.built = "cache"
          /\ tr'.built = "cache"
          /\ tr' # tr
          => /\ store'.topo = store.topo
             /\ store'.markers = store.markers
             /\ disc' = disc]_vars

\* A tracer with staleness checking traced against the persisted snapshot,
\* the saved markers agreeing with the cloud.
C21_Witness ==
    /\ ~tr.no_cache /\ ~tr.refresh_cache /\ ~tr.skip_stale_check
    /\ MetTrustedSnapshot /\ store.ret.check_staleness
    /\ store.markers.present
    /\ tr.built = "cache" /\ tr.pc = "idle" /\ tr.runs = MaxTraces

\* o lists every region of regions once, the preferred regions before the
\* others, the preferred regions in the preferred list's order and the
\* others in the order of regions.
Position(x, s) == CHOOSE i \in 1 .. Len(s) : s[i] = x
IsSearchOrder(o, regions) ==
    /\ Len(o) = Len(regions)
    /\ RegionSet(o) = RegionSet(regions)
    /\ \A i, j \in 1 .. Len(o) : i < j =>
        /\ o[i] # o[j]
        /\ InSeq(o[j], PriorityRegions) => InSeq(o[i], PriorityRegions)
        /\ InSeq(o[j], PriorityRegions) =>
            Position(o[i], PriorityRegions) < Position(o[j], PriorityRegions)
        /\ ~InSeq(o[i], PriorityRegions) =>
            Position(o[i], regions) < Position(o[j], regions)

SearchOrder(regions) ==
    CHOOSE o \in [1 .. Len(regions) -> RegionSet(regions)] : IsSearchOrder(o, regions)

Searching == tr.pc \in {"search_src", "search_dst"}

RegionLists == {<<>>, <<"eu-west-1">>, CloudRegions}

\* No is_stale call made yet.
NoStaleCall ==
    [current |-> ChangeMarkers(NoVersion, 0, <<>>, <<>>),
     verdict |-> NoVerdict, regions |-> <<>>,
     fails |-> NoFails(CloudRegions), fetched |-> FALSE]

\* StalenessChecker.is_stale(regions), the marker calls failing as fails
\* says; without saved markers the fresh ones are not fetched.
IsStaleCall ==
    \E regions \in RegionLists, fails \in FailChoices(CloudRegions) :
        LET saved == GetSavedMarkers(store.markers, store.now)
            current == GetCurrentMarkers(store.cloud, regions, fails)
        IN  /\ stale' = [current |-> IF saved.present THEN current
                                     ELSE NoStaleCall.current,
                         verdict |-> IsStale(saved, current, regions),
                         regions |-> regions, fails |-> fails,
                         fetched |-> saved.present]
            /\ UNCHANGED <<lpm, disc, store, tr>>

\* Every marker call fails.
AllFail(regions) == [nm |-> "list", ec2 |-> [r \in RegionSet(regions) |-> "tgw"]]

\* discover saving its markers: the failures of SomeFails, or every call
\* failing.
SaveMarkersAnyFails ==
    SaveMarkersOf(SomeFails(disc.topology.regions) \cup {AllFail(disc.topology.regions)})

InitMarkers ==
    /\ lpm = LpmIdle /\ tr = TrIdle
    /\ disc = DiscIdle /\ store = StoreIdle
    /\ stale = NoStaleCall

NextMarkers ==
    \/ DiscoverFetched
    \/ CacheTopology
    \/ SaveMarkersAnyFails
    \/ IsStaleCall

SpecMarkers == InitMarkers /\ [][NextMarkers]_vars

\* The markers file holds what a fetch returns when every call fails.
NothingFetched == ToDict(ChangeMarkers(NoVersion, 0, <<>>, <<>>))

\* C23: whatever calls fail, get_current_markers returns markers: a failed
\* networkmanager call leaves the policy version None or the attachment
\* count 0, a failed regional call leaves the region without an entry, and
\* what no failure touched is what the cloud holds; is_stale then answers
\* and discover then saves its markers and returns.
C23_MarkerFailuresTolerated ==
    /\ stale.fetched =>
        LET m == stale.current
            f == stale.fails
            asked == RegionSet(stale.regions)
        IN  /\ f.nm \in {"list", "policy"} => m.cwan_policy_version = NoVersion
            /\ f.nm # "none" => m.cwan_attachment_count = 0
            /\ f.nm \in {"none", "attachments"} => m.cwan_policy_version = store.cloud.pv
            /\ f.nm = "none" => m.cwan_attachment_count = store.cloud.att
            /\ \A r \in asked :
                /\ f.ec2[r] = "tgw" => r \notin DOMAIN m.tgw_count
                /\ f.ec2[r] # "none" => r \notin DOMAIN m.vpc_count
                /\ f.ec2[r] # "tgw" =>
                    r \in DOMAIN m.tgw_count /\ m.tgw_count[r] = store.cloud.tgw[r]
                /\ f.ec2[r] = "none" =>
                    r \in DOMAIN m.vpc_count /\ m.vpc_count[r] = store.cloud.vpc[r]
            /\ DOMAIN m.tgw_count \subseteq asked
            /\ DOMAIN m.vpc_count \subseteq asked
            /\ stale.verdict.kind \in {"policy", "attachments", "tgw", "vpc", "none"}
    /\ disc.pc = "returned" =>
        /\ store.topo.present /\ store.topo.data = disc.topology
        /\ store.markers.present
        /\ store.markers.data.cwan_attachment_count \in {0, store.cloud.att}
        /\ DOMAIN store.markers.data.vpc_count \subseteq DOMAIN store.markers.data.tgw_count

\* Every marker call failed: is_stale answered all the same, and a discover
\* run saved markers that hold nothing and returned.
C23_Witness ==
    /\ stale.fetched
    /\ stale.regions = CloudRegions
    /\ stale.fails.nm = "list"
    /\ \A r \in RegionSet(CloudRegions) : stale.fails.ec2[r] = "tgw"
    /\ stale.verdict.kind = "none"
    /\ disc.pc = "returned"
    /\ store.markers.present /\ store.markers.data = NothingFetched

\* No unit of the run is running or has calls left to make.
NoUnitAtWork == \A u \in Units(CloudRegions) : disc.unit[u] = "done"

\* C24: an address-index unit is started only when the backbone, the
\* transit-router and the virtual-network units have all completed; the
\* topology file is written and discover returns only when every unit has
\* completed; and from the write on no step changes the snapshot, which is
\* the one the file holds.
C24_FanOutFanIn ==
    /\ []((\E u \in IndexUnits(CloudRegions) : disc.unit[u] # "idle") =>
            \A g \in GatherUnits(CloudRegions) : disc.unit[g] = "done")
    /\ [](store.topo.present \/ disc.pc \in {"markers", "returned"} =>
            /\ NoUnitAtWork
            /\ store.topo.present /\ store.topo.data = disc.topology)
    /\ [][disc.pc \in {"markers", "returned"} =>
            disc'.topology = disc.topology /\ store'.topo = store.topo]_vars

\* discover returned an indexed snapshot, every unit completed.
C24_Witness ==
    /\ disc.pc = "returned"
    /\ NoUnitAtWork
    /\ store.topo.present
    /\ DOMAIN disc.topology.eni_index # {}

\* ------------------------------------------------------------------
\* Fallback lookups running in two threads against one tracer: each looks
\* an address up that the index does not hold, region after region, and
\* writes what it finds into the index of the shared topology.

Lookers == {1, 2}

NoLookup == [pc |-> "idle", ip |-> NoIp, search |-> 0, found |-> NoEni]

\* The tracer the lookups share, with its topology as it was loaded.
Shared(topology) ==
    [topology |-> topology, snapshot |-> topology,
     look |-> [p \in Lookers |-> NoLookup]]

\* _find_eni_cached misses the index: the live search for ip starts.
LookupStart(p, ip) ==
    /\ tr.look[p].pc = "idle"
    /\ ip \notin DOMAIN tr.topology.eni_index
    /\ \A q \in Lookers \ {p} : tr.look[q].ip # ip
    /\ tr' = [tr EXCEPT !.look[p] = [NoLookup EXCEPT !.pc = "search", !.ip = ip,
                                                     !.search = 1]]
    /\ UNCHANGED <<lpm, stale, disc, store>>

\* _find_eni_api: the lookup in the next region of the search order; a found
\* interface is written to eni_index[ip] and returned.
LookupRegion(p) ==
    /\ tr.look[p].pc = "search"
    /\ LET ordered == Ordered(tr.topology.regions)
           l == tr.look[p]
       IN \E eni \in FindEniInRegion(l.ip, ordered[l.search]) :
            tr' = IF eni # NoEni
                  THEN [tr EXCEPT
                          !.topology.eni_index = Put(@, l.ip, IndexRecord(eni)),
                          !.look[p] = [l EXCEPT !.pc = "done", !.found = eni]]
                  ELSE IF l.search < Len(ordered)
                  THEN [tr EXCEPT !.look[p].search = @ + 1]
                  ELSE [tr EXCEPT !.look[p].pc = "done"]
    /\ UNCHANGED <<lpm, stale, disc, store>>

InitLookup ==
    /\ lpm = LpmIdle /\ stale = StaleIdle /\ disc = DiscIdle /\ store = StoreIdle
    /\ \E held \in SUBSET DOMAIN FullIndex :
        tr = Shared([NetworkTopology(Account, TraceRegions) EXCEPT !.eni_index = [ip \in held |-> FullIndex[ip]]])

NextLookup ==
    \/ \E p \in Lookers, ip \in Addrs : LookupStart(p, ip)
    \/ \E p \in Lookers : LookupRegion(p)

SpecLookup == InitLookup /\ [][NextLookup]_vars

\* The lookups that have returned an interface.
FoundBy == {p \in Lookers : tr.look[p].pc = "done" /\ tr.look[p].found # NoEni}

\* C25: the index holds every entry the loaded topology held, unchanged, and
\* under its address the record of every lookup that returned an interface,
\* and nothing else; every step of a lookup changes at most the entry of
\* its own address.
C25_FallbackWritesKept ==
    /\ [](/\ \A ip \in DOMAIN tr.snapshot.eni_index :
               /\ ip \in DOMAIN tr.topology.eni_index
               /\ tr.topology.eni_index[ip] = tr.snapshot.eni_index[ip]
          /\ \A p \in FoundBy :
               /\ tr.look[p].ip \in DOMAIN tr.topology.eni_index
               /\ tr.topology.eni_index[tr.look[p].ip] = IndexRecord(tr.look[p].found)
          /\ DOMAIN tr.topology.eni_index =
               DOMAIN tr.snapshot.eni_index \cup {tr.look[p].ip : p \in FoundBy}
          /\ [tr.topology EXCEPT !.eni_index = EmptyDict]
               = [tr.snapshot EXCEPT !.eni_index = EmptyDict])
    /\ [][\A p \in Lookers :
            tr'.look[p] # tr.look[p] =>
                \A ip \in DOMAIN tr.topology.eni_index \ {tr.look[p].ip} :
                    /\ ip \in DOMAIN tr'.topology.eni_index
                    /\ tr'.topology.eni_index[ip] = tr.topology.eni_index[ip]]_vars

\* Two lookups that ran side by side have both returned an interface, the
\* second writing while the first was still searching.
C25_Witness ==
    /\ FoundBy = Lookers
    /\ tr.look[1].found.region = "us-east-1"
    /\ tr.look[2].found.region = "eu-west-1"
    /\ Cardinality(DOMAIN tr.topology.eni_index)
         = Cardinality(DOMAIN tr.snapshot.eni_index) + Cardinality(Lookers)

\* The positions of the destination hops of the result.
DestinationHops ==
    {i \in 1 .. Len(tr.result.hops) : tr.result.hops[i].type = "destination"}

\* C26: in every result trace returns, reachable is true exactly when the
\* last hop is a destination hop; a destination hop is the last hop and the
\* only one of its type; a reachable result has no blocked_reason and no
\* blocked_at; an unreachable result has a blocked_reason.
C26_ResultSelfConsistent ==
    tr.pc = "done" =>
        LET r == tr.result
        IN  /\ r.reachable <=> (r.hops # <<>> /\ r.hops[Len(r.hops)].type = "destination")
            /\ DestinationHops \subseteq {Len(r.hops)}
            /\ r.reachable => r.blocked_reason = NoReason /\ r.blocked_at = NoHop
            /\ ~r.reachable => r.blocked_reason # NoReason /\ r.blocked_reason.text # ""

\* A trace through the backbone returned reachable with its destination hop
\* last, after a firewall hop.
C26_Witness ==
    /\ tr.pc = "done"
    /\ tr.result.reachable
    /\ DestinationHops = {Len(tr.result.hops)}
    /\ \E i \in 1 .. Len(tr.result.hops) : tr.result.hops[i].type = "firewall"
C27_WitnessStale ==
    /\ tr.has_topology /\ tr.pc = "loaded" /\ tr.runs = MaxTraces
    /\ tr.built = "cache"
    /\ store.topo.present
    /\ store.now - store.topo.cached_at > store.topo.ttl_seconds
\* ---------------------------------------------------------------------
\* C28: with no_cache set the tracer never calls get_cached, so that
\* neither the persisted snapshot nor the saved markers are read, and it
\* holds a topology only from discover; the discover it runs still writes
\* both files: when the first trace has loaded, the snapshot file holds
\* what the tracer holds and the markers file holds the markers of that
\* run, whatever the two files held before.
\* ---------------------------------------------------------------------
C28_NoCacheStillWrites ==
    /\ [](tr.no_cache =>
            /\ ~store.ret.called
            /\ tr.pc # "get"
            /\ tr.has_topology => tr.built = "discover"
            /\ tr.pc = "loaded" /\ tr.runs = 1 =>
                /\ store.topo = CacheSet(tr.topology, tr.topology.account_id,
                                         store.now)
                /\ \E fails \in SomeFails(tr.topology.regions) :
                      store.markers = SaveMarkers(
                          GetCurrentMarkers(store.cloud,
                                            Take(tr.topology.regions, MaxMarkerRegions),
                                            fails),
                          store.now))
    /\ [][tr.no_cache /\ tr.pc = "await" =>
            /\ disc.pc = "index" /\ disc'.pc = "markers" =>
                  store'.topo.present /\ store'.topo.data = disc.topology
            /\ disc.pc = "markers" /\ disc'.pc = "returned" =>
                  store'.markers.present /\ store'.markers.cached_at = store.now]_vars

\* A no_cache tracer has loaded by discover at a time after another
\* process had persisted a snapshot and markers, which its run replaced.
C28_Witness ==
    /\ tr.no_cache /\ ~tr.refresh_cache
    /\ tr.pc = "loaded" /\ tr.runs = 1 /\ tr.built = "discover"
    /\ store.now > 0
    /\ store.topo.present /\ store.topo.cached_at = store.now
    /\ store.markers.present /\ store.markers.cached_at = store.now
    /\ store.cloud # DiscoverCloud
\* ---------------------------------------------------------------------
\* C29: every fetch succeeding, the address index a discover run returns
\* is the one index of the cloud state, whatever the order in which the
\* per-region index workers ran: the run that writes region after region
\* in list order and every other run end with the same eni_index.
\* ---------------------------------------------------------------------
C29_IndexOrderFree ==
    disc.pc = "returned" =>
        disc.topology.eni_index = Discovered(store.account).eni_index

\* The addresses interfaces of more than one region use.
SharedAddresses ==
    {ip \in Addrs :
        Cardinality({r \in RegionSet(CloudRegions) : ip \in DOMAIN CloudEnis(r)}) > 1}

\* Two returned runs are both there: one recorded the shared address in a
\* region, the other could have recorded it in another.
C29_EitherRegionRecorded ==
    /\ disc.pc = "returned"
    /\ \E ip \in SharedAddresses :
        disc.topology.eni_index[ip].region # Discovered(store.account).eni_index[ip].region
\* ---------------------------------------------------------------------
\* C30: in the backbone branch, once the hop of the source's segment is
\* appended the trace neither raises nor returns unreachable: until it
\* returns a further hop can always be appended, every step appends one,
\* and the result it returns ends with the destination hop and is
\* reachable. The destination's segment is reported as found: absent in
\* the destination hop and "unknown" in the cross-region hop when the
\* destination's network has no attachment.
\* ---------------------------------------------------------------------
InBackbone ==
    /\ tr.pc \notin {"idle"}
    /\ \E i \in 1 .. Len(tr.result.hops) : tr.result.hops[i].type = "cloud_wan_segment"

C30_BackboneEndsReachable ==
    /\ [](InBackbone =>
            /\ tr.pc \in {"cwan_nfg", "cwan_fw", "cwan_dst", "done"}
            /\ tr.pc # "done" =>
                  ENABLED (CloudWanNfgHop \/ CloudWanFirewallHop
                           \/ CloudWanCrossRegionHop \/ CloudWanDestinationHop)
            /\ tr.pc = "done" =>
                LET hops == tr.result.hops
                    last == hops[Len(hops)]
                IN  /\ tr.result.reachable
                    /\ tr.result.blocked_reason = NoReason
                    /\ last.type = "destination"
                    /\ last.id = tr.dst_eni.eni_id
                    /\ last.detail.segment = DstSegment(tr)
                    /\ tr.src_eni.region # tr.dst_eni.region =>
                          /\ hops[Len(hops) - 1].type = "cloud_wan_segment"
                          /\ hops[Len(hops) - 1].id =
                                IF DstSegment(tr) = None THEN "unknown"
                                ELSE DstSegment(tr))
    /\ [][InBackbone /\ tr.pc # "done" =>
            /\ Len(tr'.result.hops) = Len(tr.result.hops) + 1
            /\ tr'.result.hops[Len(tr'.result.hops)].type
                  \in {"nfg", "firewall", "cloud_wan_segment", "destination"}]_vars

\* A trace through the backbone returned reachable to a destination in
\* another region whose network has no attachment, no send-via action
\* applying: source, route table, segment, segment "unknown", destination.
C30_Witness ==
    /\ InBackbone /\ tr.pc = "done" /\ tr.result.reachable
    /\ DstSegment(tr) = None
    /\ SendViaNfg(tr) = None
    /\ tr.src_eni.region # tr.dst_eni.region
    /\ HopTypes(tr.result.hops) =
          <<"eni", "route_table", "cloud_wan_segment", "cloud_wan_segment",
            "destination">>
    /\ tr.result.hops[4].id = "unknown"
====
